---------------------------- MODULE Spec2Model ----------------------------
(***************************************************************************)
(* Model of the two notification scripts of sample_pagespeed:              *)
(*   notify_email.py     (EmailNotifier,    specifications SpecEmail and   *)
(*                        SpecRecipients)                                  *)
(*   notify_telegram.py  (TelegramNotifier, specification SpecTelegram)    *)
(* A run of a script is a run of a sequential process: pc is the position  *)
(* in main(), every call into the SMTP / HTTP library is one step whose    *)
(* outcome (success or a raised exception) is chosen by the environment.   *)
(* Python strings are sequences of one-character strings, so that strip(), *)
(* split(","), upper(), int() and str() are computed, not assumed.         *)
(***************************************************************************)
EXTENDS Integers, Sequences, FiniteSets, TLC

VARIABLES
    pc,          \* position in main(); "done" once the process has exited
    env,         \* the process environment (os.getenv), a record of strings / None
    args,        \* the command line as argparse sees it
    fs,          \* what the file system holds at args.report: absent / file / dir
    port,        \* notify_email.main: port (int) once SMTP_PORT was parsed
    recipients,  \* notify_email.main: recipients (list of strings)
    msg,         \* notify_email.main: the EmailMessage built so far
    tls,         \* whether the SMTP session is encrypted
    text,        \* notify_telegram.main: text, the lines joined by line feeds
    res,         \* notify_telegram.main: the decoded JSON response
    trace,       \* history: the library calls made so far, each <<call, outcome>>
    out,         \* lines printed to standard output
    err,         \* lines printed to standard error
    exitCode     \* the exit status; NoExit while running

vars == << pc, env, args, fs, port, recipients, msg, tls, text, res, trace,
           out, err, exitCode >>

-----------------------------------------------------------------------------
(* Bounds of the model *)

\* longest --to / EMAIL_TO string enumerated over RecipientAlphabet
MaxStrLen == 3
\* longest run of white space put before and after a --status word
MaxPad == 1

-----------------------------------------------------------------------------
(* Python values *)

\* Python's None; no string, since strings are sequences of 1-character strings
None == << "<None>" >>
\* exitCode while the process is still running
NoExit == 0 - 1

\* A character that cannot stand in a string literal of this module is written
\* by its code point, as the one-character string "U+2028".

\* the line boundaries of str.splitlines(): line feed, vertical tab, form
\* feed, carriage return, the separators FS, GS, RS, next line (U+0085), line
\* separator and paragraph separator
LineBreaks ==
    { "\n", "", "\f", "\r", "", "", "", "", "U+2028", "U+2029" }

\* the characters str.strip() removes (str.isspace()): the line boundaries,
\* tab, the unit separator US, and the Unicode spaces
WhiteSpace ==
    LineBreaks \cup
    { "\t", "", " ", " ", " ", "U+2000", "U+2001", "U+2002", "U+2003",
      "U+2004", "U+2005", "U+2006", "U+2007", "U+2008", "U+2009", "U+200A",
      "U+202F", "U+205F", "U+3000" }

\* the characters int() reads as a digit (the Unicode decimal digits):
\* DecimalDigits[v + 1] holds those of value v
DecimalDigits ==
    <<
       { "0", "U+0660", "۰", "߀", "U+0966", "০", "U+0A66", "૦", "U+0B66",
         "௦", "U+0C66", "೦", "U+0D66", "෦", "U+0E50", "໐", "U+0F20",
         "U+1040", "႐", "០", "U+1810", "U+1946", "᧐", "᪀", "᪐", "U+1B50",
         "᮰", "U+1C40", "U+1C50", "U+A620", "꣐", "U+A900", "꧐", "꧰",
         "U+AA50", "꯰", "U+FF10", "U+104A0", "U+10D30", "U+11066", "U+110F0",
         "U+11136", "U+111D0", "U+112F0", "U+11450", "U+114D0", "U+11650",
         "U+116C0", "U+11730", "U+118E0", "U+11950", "U+11C50", "U+11D50",
         "U+11DA0", "U+16A60", "U+16AC0", "U+16B50", "U+1D7CE", "U+1D7D8",
         "U+1D7E2", "U+1D7EC", "U+1D7F6", "U+1E140", "U+1E2F0", "U+1E950",
         "U+1FBF0" },
       { "1", "U+0661", "۱", "߁", "U+0967", "১", "U+0A67", "૧", "U+0B67",
         "௧", "U+0C67", "೧", "U+0D67", "෧", "U+0E51", "໑", "U+0F21",
         "U+1041", "႑", "១", "U+1811", "U+1947", "᧑", "᪁", "᪑", "U+1B51",
         "᮱", "U+1C41", "U+1C51", "U+A621", "꣑", "U+A901", "꧑", "꧱",
         "U+AA51", "꯱", "U+FF11", "U+104A1", "U+10D31", "U+11067", "U+110F1",
         "U+11137", "U+111D1", "U+112F1", "U+11451", "U+114D1", "U+11651",
         "U+116C1", "U+11731", "U+118E1", "U+11951", "U+11C51", "U+11D51",
         "U+11DA1", "U+16A61", "U+16AC1", "U+16B51", "U+1D7CF", "U+1D7D9",
         "U+1D7E3", "U+1D7ED", "U+1D7F7", "U+1E141", "U+1E2F1", "U+1E951",
         "U+1FBF1" },
       { "2", "U+0662", "۲", "߂", "U+0968", "২", "U+0A68", "૨", "U+0B68",
         "௨", "U+0C68", "೨", "U+0D68", "෨", "U+0E52", "໒", "U+0F22",
         "U+1042", "႒", "២", "U+1812", "U+1948", "᧒", "᪂", "᪒", "U+1B52",
         "᮲", "U+1C42", "U+1C52", "U+A622", "꣒", "U+A902", "꧒", "꧲",
         "U+AA52", "꯲", "U+FF12", "U+104A2", "U+10D32", "U+11068", "U+110F2",
         "U+11138", "U+111D2", "U+112F2", "U+11452", "U+114D2", "U+11652",
         "U+116C2", "U+11732", "U+118E2", "U+11952", "U+11C52", "U+11D52",
         "U+11DA2", "U+16A62", "U+16AC2", "U+16B52", "U+1D7D0", "U+1D7DA",
         "U+1D7E4", "U+1D7EE", "U+1D7F8", "U+1E142", "U+1E2F2", "U+1E952",
         "U+1FBF2" },
       { "3", "U+0663", "۳", "߃", "U+0969", "৩", "U+0A69", "૩", "U+0B69",
         "௩", "U+0C69", "೩", "U+0D69", "෩", "U+0E53", "໓", "U+0F23",
         "U+1043", "႓", "៣", "U+1813", "U+1949", "᧓", "᪃", "᪓", "U+1B53",
         "᮳", "U+1C43", "U+1C53", "U+A623", "꣓", "U+A903", "꧓", "꧳",
         "U+AA53", "꯳", "U+FF13", "U+104A3", "U+10D33", "U+11069", "U+110F3",
         "U+11139", "U+111D3", "U+112F3", "U+11453", "U+114D3", "U+11653",
         "U+116C3", "U+11733", "U+118E3", "U+11953", "U+11C53", "U+11D53",
         "U+11DA3", "U+16A63", "U+16AC3", "U+16B53", "U+1D7D1", "U+1D7DB",
         "U+1D7E5", "U+1D7EF", "U+1D7F9", "U+1E143", "U+1E2F3", "U+1E953",
         "U+1FBF3" },
       { "4", "U+0664", "۴", "߄", "U+096A", "৪", "U+0A6A", "૪", "U+0B6A",
         "௪", "U+0C6A", "೪", "U+0D6A", "෪", "U+0E54", "໔", "U+0F24",
         "U+1044", "႔", "៤", "U+1814", "U+194A", "᧔", "᪄", "᪔", "U+1B54",
         "᮴", "U+1C44", "U+1C54", "U+A624", "꣔", "U+A904", "꧔", "꧴",
         "U+AA54", "꯴", "U+FF14", "U+104A4", "U+10D34", "U+1106A", "U+110F4",
         "U+1113A", "U+111D4", "U+112F4", "U+11454", "U+114D4", "U+11654",
         "U+116C4", "U+11734", "U+118E4", "U+11954", "U+11C54", "U+11D54",
         "U+11DA4", "U+16A64", "U+16AC4", "U+16B54", "U+1D7D2", "U+1D7DC",
         "U+1D7E6", "U+1D7F0", "U+1D7FA", "U+1E144", "U+1E2F4", "U+1E954",
         "U+1FBF4" },
       { "5", "U+0665", "۵", "߅", "U+096B", "৫", "U+0A6B", "૫", "U+0B6B",
         "௫", "U+0C6B", "೫", "U+0D6B", "෫", "U+0E55", "໕", "U+0F25",
         "U+1045", "႕", "៥", "U+1815", "U+194B", "᧕", "᪅", "᪕", "U+1B55",
         "᮵", "U+1C45", "U+1C55", "U+A625", "꣕", "U+A905", "꧕", "꧵",
         "U+AA55", "꯵", "U+FF15", "U+104A5", "U+10D35", "U+1106B", "U+110F5",
         "U+1113B", "U+111D5", "U+112F5", "U+11455", "U+114D5", "U+11655",
         "U+116C5", "U+11735", "U+118E5", "U+11955", "U+11C55", "U+11D55",
         "U+11DA5", "U+16A65", "U+16AC5", "U+16B55", "U+1D7D3", "U+1D7DD",
         "U+1D7E7", "U+1D7F1", "U+1D7FB", "U+1E145", "U+1E2F5", "U+1E955",
         "U+1FBF5" },
       { "6", "U+0666", "۶", "߆", "U+096C", "৬", "U+0A6C", "૬", "U+0B6C",
         "௬", "U+0C6C", "೬", "U+0D6C", "෬", "U+0E56", "໖", "U+0F26",
         "U+1046", "႖", "៦", "U+1816", "U+194C", "᧖", "᪆", "᪖", "U+1B56",
         "᮶", "U+1C46", "U+1C56", "U+A626", "꣖", "U+A906", "꧖", "꧶",
         "U+AA56", "꯶", "U+FF16", "U+104A6", "U+10D36", "U+1106C", "U+110F6",
         "U+1113C", "U+111D6", "U+112F6", "U+11456", "U+114D6", "U+11656",
         "U+116C6", "U+11736", "U+118E6", "U+11956", "U+11C56", "U+11D56",
         "U+11DA6", "U+16A66", "U+16AC6", "U+16B56", "U+1D7D4", "U+1D7DE",
         "U+1D7E8", "U+1D7F2", "U+1D7FC", "U+1E146", "U+1E2F6", "U+1E956",
         "U+1FBF6" },
       { "7", "U+0667", "۷", "߇", "U+096D", "৭", "U+0A6D", "૭", "U+0B6D",
         "௭", "U+0C6D", "೭", "U+0D6D", "෭", "U+0E57", "໗", "U+0F27",
         "U+1047", "႗", "៧", "U+1817", "U+194D", "᧗", "᪇", "᪗", "U+1B57",
         "᮷", "U+1C47", "U+1C57", "U+A627", "꣗", "U+A907", "꧗", "꧷",
         "U+AA57", "꯷", "U+FF17", "U+104A7", "U+10D37", "U+1106D", "U+110F7",
         "U+1113D", "U+111D7", "U+112F7", "U+11457", "U+114D7", "U+11657",
         "U+116C7", "U+11737", "U+118E7", "U+11957", "U+11C57", "U+11D57",
         "U+11DA7", "U+16A67", "U+16AC7", "U+16B57", "U+1D7D5", "U+1D7DF",
         "U+1D7E9", "U+1D7F3", "U+1D7FD", "U+1E147", "U+1E2F7", "U+1E957",
         "U+1FBF7" },
       { "8", "U+0668", "۸", "߈", "U+096E", "৮", "U+0A6E", "૮", "U+0B6E",
         "௮", "U+0C6E", "೮", "U+0D6E", "෮", "U+0E58", "໘", "U+0F28",
         "U+1048", "႘", "៨", "U+1818", "U+194E", "᧘", "᪈", "᪘", "U+1B58",
         "᮸", "U+1C48", "U+1C58", "U+A628", "꣘", "U+A908", "꧘", "꧸",
         "U+AA58", "꯸", "U+FF18", "U+104A8", "U+10D38", "U+1106E", "U+110F8",
         "U+1113E", "U+111D8", "U+112F8", "U+11458", "U+114D8", "U+11658",
         "U+116C8", "U+11738", "U+118E8", "U+11958", "U+11C58", "U+11D58",
         "U+11DA8", "U+16A68", "U+16AC8", "U+16B58", "U+1D7D6", "U+1D7E0",
         "U+1D7EA", "U+1D7F4", "U+1D7FE", "U+1E148", "U+1E2F8", "U+1E958",
         "U+1FBF8" },
       { "9", "U+0669", "۹", "߉", "U+096F", "৯", "U+0A6F", "૯", "U+0B6F",
         "௯", "U+0C6F", "೯", "U+0D6F", "෯", "U+0E59", "໙", "U+0F29",
         "U+1049", "႙", "៩", "U+1819", "U+194F", "᧙", "᪉", "᪙", "U+1B59",
         "᮹", "U+1C49", "U+1C59", "U+A629", "꣙", "U+A909", "꧙", "꧹",
         "U+AA59", "꯹", "U+FF19", "U+104A9", "U+10D39", "U+1106F", "U+110F9",
         "U+1113F", "U+111D9", "U+112F9", "U+11459", "U+114D9", "U+11659",
         "U+116C9", "U+11739", "U+118E9", "U+11959", "U+11C59", "U+11D59",
         "U+11DA9", "U+16A69", "U+16AC9", "U+16B59", "U+1D7D7", "U+1D7E1",
         "U+1D7EB", "U+1D7F5", "U+1D7FF", "U+1E149", "U+1E2F9", "U+1E959",
         "U+1FBF9" }
    >>

Digits == UNION { DecimalDigits[v] : v \in 1..10 }

\* all sequences over S of length at most n
RECURSIVE SeqsUpTo(_, _)
SeqsUpTo(S, n) ==
    IF n = 0 THEN { << >> }
    ELSE LET shorter == SeqsUpTo(S, n - 1)
         IN  shorter \cup { Append(s, c) : s \in { t \in shorter : Len(t) = n - 1 }, c \in S }

\* str.lstrip()
RECURSIVE LStrip(_)
LStrip(s) ==
    IF s # << >> /\ Head(s) \in WhiteSpace THEN LStrip(Tail(s)) ELSE s

\* str.rstrip()
RECURSIVE RStrip(_)
RStrip(s) ==
    IF s # << >> /\ s[Len(s)] \in WhiteSpace
    THEN RStrip(SubSeq(s, 1, Len(s) - 1))
    ELSE s

\* str.strip()
Strip(s) == RStrip(LStrip(s))

\* str.upper() of every character it changes other than a..z: the character
\* and the one, two or three characters it becomes
UpperPairs ==
    { << "µ", << "Μ" >> >>, << "ß", << "S", "S" >> >>, << "à", << "À" >> >>,
      << "á", << "Á" >> >>, << "â", << "Â" >> >>, << "ã", << "Ã" >> >>,
      << "ä", << "Ä" >> >>, << "å", << "Å" >> >>, << "æ", << "Æ" >> >>,
      << "ç", << "Ç" >> >>, << "è", << "È" >> >>, << "é", << "É" >> >>,
      << "ê", << "Ê" >> >>, << "ë", << "Ë" >> >>, << "ì", << "Ì" >> >>,
      << "í", << "Í" >> >>, << "î", << "Î" >> >>, << "ï", << "Ï" >> >>,
      << "ð", << "Ð" >> >>, << "ñ", << "Ñ" >> >>, << "ò", << "Ò" >> >>,
      << "ó", << "Ó" >> >>, << "ô", << "Ô" >> >>, << "õ", << "Õ" >> >>,
      << "ö", << "Ö" >> >>, << "ø", << "Ø" >> >>, << "ù", << "Ù" >> >>,
      << "ú", << "Ú" >> >>, << "û", << "Û" >> >>, << "ü", << "Ü" >> >>,
      << "ý", << "Ý" >> >>, << "þ", << "Þ" >> >>, << "ÿ", << "U+0178" >> >>,
      << "U+0101", << "U+0100" >> >>, << "U+0103", << "U+0102" >> >>,
      << "U+0105", << "U+0104" >> >>, << "U+0107", << "U+0106" >> >>,
      << "U+0109", << "U+0108" >> >>, << "U+010B", << "U+010A" >> >>,
      << "U+010D", << "U+010C" >> >>, << "U+010F", << "U+010E" >> >>,
      << "U+0111", << "U+0110" >> >>, << "U+0113", << "U+0112" >> >>,
      << "U+0115", << "U+0114" >> >>, << "U+0117", << "U+0116" >> >>,
      << "U+0119", << "U+0118" >> >>, << "U+011B", << "U+011A" >> >>,
      << "U+011D", << "U+011C" >> >>, << "U+011F", << "U+011E" >> >>,
      << "U+0121", << "U+0120" >> >>, << "U+0123", << "U+0122" >> >>,
      << "U+0125", << "U+0124" >> >>, << "U+0127", << "U+0126" >> >>,
      << "U+0129", << "U+0128" >> >>, << "U+012B", << "U+012A" >> >>,
      << "U+012D", << "U+012C" >> >>, << "U+012F", << "U+012E" >> >>,
      << "U+0131", << "I" >> >>, << "U+0133", << "U+0132" >> >>,
      << "U+0135", << "U+0134" >> >>, << "U+0137", << "U+0136" >> >>,
      << "U+013A", << "U+0139" >> >>, << "U+013C", << "U+013B" >> >>,
      << "U+013E", << "U+013D" >> >>, << "U+0140", << "U+013F" >> >>,
      << "U+0142", << "U+0141" >> >>, << "U+0144", << "U+0143" >> >>,
      << "U+0146", << "U+0145" >> >>, << "U+0148", << "U+0147" >> >>,
      << "U+0149", << "ʼ", "N" >> >>, << "U+014B", << "U+014A" >> >>,
      << "U+014D", << "U+014C" >> >>, << "U+014F", << "U+014E" >> >>,
      << "U+0151", << "U+0150" >> >>, << "U+0153", << "U+0152" >> >>,
      << "U+0155", << "U+0154" >> >>, << "U+0157", << "U+0156" >> >>,
      << "U+0159", << "U+0158" >> >>, << "U+015B", << "U+015A" >> >>,
      << "U+015D", << "U+015C" >> >>, << "U+015F", << "U+015E" >> >>,
      << "U+0161", << "U+0160" >> >>, << "U+0163", << "U+0162" >> >>,
      << "U+0165", << "U+0164" >> >>, << "U+0167", << "U+0166" >> >>,
      << "U+0169", << "U+0168" >> >>, << "U+016B", << "U+016A" >> >>,
      << "U+016D", << "U+016C" >> >>, << "U+016F", << "U+016E" >> >>,
      << "U+0171", << "U+0170" >> >>, << "U+0173", << "U+0172" >> >>,
      << "U+0175", << "U+0174" >> >>, << "U+0177", << "U+0176" >> >>,
      << "U+017A", << "U+0179" >> >>, << "U+017C", << "U+017B" >> >>,
      << "U+017E", << "U+017D" >> >>, << "U+017F", << "S" >> >>,
      << "ƀ", << "U+0243" >> >>, << "ƃ", << "Ƃ" >> >>, << "ƅ", << "Ƅ" >> >>,
      << "ƈ", << "Ƈ" >> >>, << "ƌ", << "Ƌ" >> >>, << "ƒ", << "Ƒ" >> >>,
      << "ƕ", << "Ƕ" >> >>, << "ƙ", << "Ƙ" >> >>, << "ƚ", << "U+023D" >> >>,
      << "ƞ", << "U+0220" >> >>, << "ơ", << "Ơ" >> >>, << "ƣ", << "Ƣ" >> >>,
      << "ƥ", << "Ƥ" >> >>, << "ƨ", << "Ƨ" >> >>, << "ƭ", << "Ƭ" >> >>,
      << "ư", << "Ư" >> >>, << "ƴ", << "Ƴ" >> >>, << "ƶ", << "Ƶ" >> >>,
      << "ƹ", << "Ƹ" >> >>, << "ƽ", << "Ƽ" >> >>, << "ƿ", << "Ƿ" >> >>,
      << "ǅ", << "Ǆ" >> >>, << "ǆ", << "Ǆ" >> >>, << "ǈ", << "Ǉ" >> >>,
      << "ǉ", << "Ǉ" >> >>, << "ǋ", << "Ǌ" >> >>, << "ǌ", << "Ǌ" >> >>,
      << "ǎ", << "Ǎ" >> >>, << "ǐ", << "Ǐ" >> >>, << "ǒ", << "Ǒ" >> >>,
      << "ǔ", << "Ǔ" >> >>, << "ǖ", << "Ǖ" >> >>, << "ǘ", << "Ǘ" >> >>,
      << "ǚ", << "Ǚ" >> >>, << "ǜ", << "Ǜ" >> >>, << "ǝ", << "Ǝ" >> >>,
      << "ǟ", << "Ǟ" >> >>, << "ǡ", << "Ǡ" >> >>, << "ǣ", << "Ǣ" >> >>,
      << "ǥ", << "Ǥ" >> >>, << "ǧ", << "Ǧ" >> >>, << "ǩ", << "Ǩ" >> >>,
      << "ǫ", << "Ǫ" >> >>, << "ǭ", << "Ǭ" >> >>, << "ǯ", << "Ǯ" >> >>,
      << "ǰ", << "J", "U+030C" >> >>, << "ǲ", << "Ǳ" >> >>,
      << "ǳ", << "Ǳ" >> >>, << "ǵ", << "Ǵ" >> >>, << "ǹ", << "Ǹ" >> >>,
      << "ǻ", << "Ǻ" >> >>, << "ǽ", << "Ǽ" >> >>, << "ǿ", << "Ǿ" >> >>,
      << "U+0201", << "U+0200" >> >>, << "U+0203", << "U+0202" >> >>,
      << "U+0205", << "U+0204" >> >>, << "U+0207", << "U+0206" >> >>,
      << "U+0209", << "U+0208" >> >>, << "U+020B", << "U+020A" >> >>,
      << "U+020D", << "U+020C" >> >>, << "U+020F", << "U+020E" >> >>,
      << "U+0211", << "U+0210" >> >>, << "U+0213", << "U+0212" >> >>,
      << "U+0215", << "U+0214" >> >>, << "U+0217", << "U+0216" >> >>,
      << "U+0219", << "U+0218" >> >>, << "U+021B", << "U+021A" >> >>,
      << "U+021D", << "U+021C" >> >>, << "U+021F", << "U+021E" >> >>,
      << "U+0223", << "U+0222" >> >>, << "U+0225", << "U+0224" >> >>,
      << "U+0227", << "U+0226" >> >>, << "U+0229", << "U+0228" >> >>,
      << "U+022B", << "U+022A" >> >>, << "U+022D", << "U+022C" >> >>,
      << "U+022F", << "U+022E" >> >>, << "U+0231", << "U+0230" >> >>,
      << "U+0233", << "U+0232" >> >>, << "U+023C", << "U+023B" >> >>,
      << "U+023F", << "U+2C7E" >> >>, << "U+0240", << "U+2C7F" >> >>,
      << "U+0242", << "U+0241" >> >>, << "U+0247", << "U+0246" >> >>,
      << "U+0249", << "U+0248" >> >>, << "U+024B", << "U+024A" >> >>,
      << "U+024D", << "U+024C" >> >>, << "U+024F", << "U+024E" >> >>,
      << "U+0250", << "U+2C6F" >> >>, << "U+0251", << "U+2C6D" >> >>,
      << "U+0252", << "U+2C70" >> >>, << "U+0253", << "Ɓ" >> >>,
      << "U+0254", << "Ɔ" >> >>, << "U+0256", << "Ɖ" >> >>,
      << "U+0257", << "Ɗ" >> >>, << "U+0259", << "Ə" >> >>,
      << "U+025B", << "Ɛ" >> >>, << "U+025C", << "Ɜ" >> >>,
      << "U+0260", << "Ɠ" >> >>, << "U+0261", << "Ɡ" >> >>,
      << "U+0263", << "Ɣ" >> >>, << "U+0265", << "Ɥ" >> >>,
      << "U+0266", << "Ɦ" >> >>, << "U+0268", << "Ɨ" >> >>,
      << "U+0269", << "Ɩ" >> >>, << "U+026A", << "Ɪ" >> >>,
      << "U+026B", << "U+2C62" >> >>, << "U+026C", << "Ɬ" >> >>,
      << "U+026F", << "Ɯ" >> >>, << "U+0271", << "U+2C6E" >> >>,
      << "U+0272", << "Ɲ" >> >>, << "U+0275", << "Ɵ" >> >>,
      << "U+027D", << "U+2C64" >> >>, << "ʀ", << "Ʀ" >> >>,
      << "ʂ", << "Ʂ" >> >>, << "ʃ", << "Ʃ" >> >>, << "ʇ", << "Ʇ" >> >>,
      << "ʈ", << "Ʈ" >> >>, << "ʉ", << "U+0244" >> >>, << "ʊ", << "Ʊ" >> >>,
      << "ʋ", << "Ʋ" >> >>, << "ʌ", << "U+0245" >> >>, << "ʒ", << "Ʒ" >> >>,
      << "ʝ", << "Ʝ" >> >>, << "ʞ", << "Ʞ" >> >>, << "U+0345", << "Ι" >> >>,
      << "U+0371", << "U+0370" >> >>, << "U+0373", << "U+0372" >> >>,
      << "U+0377", << "U+0376" >> >>, << "U+037B", << "Ͻ" >> >>,
      << "U+037C", << "Ͼ" >> >>, << "U+037D", << "Ͽ" >> >>,
      << "ΐ", << "Ι", "U+0308", "U+0301" >> >>, << "ά", << "Ά" >> >>,
      << "έ", << "Έ" >> >>, << "ή", << "Ή" >> >>, << "ί", << "Ί" >> >>,
      << "ΰ", << "Υ", "U+0308", "U+0301" >> >>, << "α", << "Α" >> >>,
      << "β", << "Β" >> >>, << "γ", << "Γ" >> >>, << "δ", << "Δ" >> >>,
      << "ε", << "Ε" >> >>, << "ζ", << "Ζ" >> >>, << "η", << "Η" >> >>,
      << "θ", << "Θ" >> >>, << "ι", << "Ι" >> >>, << "κ", << "Κ" >> >>,
      << "λ", << "Λ" >> >>, << "μ", << "Μ" >> >>, << "ν", << "Ν" >> >>,
      << "ξ", << "Ξ" >> >>, << "ο", << "Ο" >> >>, << "π", << "Π" >> >>,
      << "ρ", << "Ρ" >> >>, << "ς", << "Σ" >> >>, << "σ", << "Σ" >> >>,
      << "τ", << "Τ" >> >>, << "υ", << "Υ" >> >>, << "φ", << "Φ" >> >>,
      << "χ", << "Χ" >> >>, << "ψ", << "Ψ" >> >>, << "ω", << "Ω" >> >>,
      << "ϊ", << "Ϊ" >> >>, << "ϋ", << "Ϋ" >> >>, << "ό", << "Ό" >> >>,
      << "ύ", << "Ύ" >> >>, << "ώ", << "Ώ" >> >>, << "ϐ", << "Β" >> >>,
      << "ϑ", << "Θ" >> >>, << "ϕ", << "Φ" >> >>, << "ϖ", << "Π" >> >>,
      << "ϗ", << "Ϗ" >> >>, << "ϙ", << "Ϙ" >> >>, << "ϛ", << "Ϛ" >> >>,
      << "ϝ", << "Ϝ" >> >>, << "ϟ", << "Ϟ" >> >>, << "ϡ", << "Ϡ" >> >>,
      << "ϣ", << "Ϣ" >> >>, << "ϥ", << "Ϥ" >> >>, << "ϧ", << "Ϧ" >> >>,
      << "ϩ", << "Ϩ" >> >>, << "ϫ", << "Ϫ" >> >>, << "ϭ", << "Ϭ" >> >>,
      << "ϯ", << "Ϯ" >> >>, << "ϰ", << "Κ" >> >>, << "ϱ", << "Ρ" >> >>,
      << "ϲ", << "Ϲ" >> >>, << "ϳ", << "U+037F" >> >>, << "ϵ", << "Ε" >> >>,
      << "ϸ", << "Ϸ" >> >>, << "ϻ", << "Ϻ" >> >>,
      << "U+0430", << "U+0410" >> >>, << "U+0431", << "U+0411" >> >>,
      << "U+0432", << "U+0412" >> >>, << "U+0433", << "U+0413" >> >>,
      << "U+0434", << "U+0414" >> >>, << "U+0435", << "U+0415" >> >>,
      << "U+0436", << "U+0416" >> >>, << "U+0437", << "U+0417" >> >>,
      << "U+0438", << "U+0418" >> >>, << "U+0439", << "U+0419" >> >>,
      << "U+043A", << "U+041A" >> >>, << "U+043B", << "U+041B" >> >>,
      << "U+043C", << "U+041C" >> >>, << "U+043D", << "U+041D" >> >>,
      << "U+043E", << "U+041E" >> >>, << "U+043F", << "U+041F" >> >>,
      << "U+0440", << "U+0420" >> >>, << "U+0441", << "U+0421" >> >>,
      << "U+0442", << "U+0422" >> >>, << "U+0443", << "U+0423" >> >>,
      << "U+0444", << "U+0424" >> >>, << "U+0445", << "U+0425" >> >>,
      << "U+0446", << "U+0426" >> >>, << "U+0447", << "U+0427" >> >>,
      << "U+0448", << "U+0428" >> >>, << "U+0449", << "U+0429" >> >>,
      << "U+044A", << "U+042A" >> >>, << "U+044B", << "U+042B" >> >>,
      << "U+044C", << "U+042C" >> >>, << "U+044D", << "U+042D" >> >>,
      << "U+044E", << "U+042E" >> >>, << "U+044F", << "U+042F" >> >>,
      << "U+0450", << "U+0400" >> >>, << "U+0451", << "U+0401" >> >>,
      << "U+0452", << "U+0402" >> >>, << "U+0453", << "U+0403" >> >>,
      << "U+0454", << "U+0404" >> >>, << "U+0455", << "U+0405" >> >>,
      << "U+0456", << "U+0406" >> >>, << "U+0457", << "U+0407" >> >>,
      << "U+0458", << "U+0408" >> >>, << "U+0459", << "U+0409" >> >>,
      << "U+045A", << "U+040A" >> >>, << "U+045B", << "U+040B" >> >>,
      << "U+045C", << "U+040C" >> >>, << "U+045D", << "U+040D" >> >>,
      << "U+045E", << "U+040E" >> >>, << "U+045F", << "U+040F" >> >>,
      << "U+0461", << "U+0460" >> >>, << "U+0463", << "U+0462" >> >>,
      << "U+0465", << "U+0464" >> >>, << "U+0467", << "U+0466" >> >>,
      << "U+0469", << "U+0468" >> >>, << "U+046B", << "U+046A" >> >>,
      << "U+046D", << "U+046C" >> >>, << "U+046F", << "U+046E" >> >>,
      << "U+0471", << "U+0470" >> >>, << "U+0473", << "U+0472" >> >>,
      << "U+0475", << "U+0474" >> >>, << "U+0477", << "U+0476" >> >>,
      << "U+0479", << "U+0478" >> >>, << "U+047B", << "U+047A" >> >>,
      << "U+047D", << "U+047C" >> >>, << "U+047F", << "U+047E" >> >>,
      << "ҁ", << "Ҁ" >> >>, << "ҋ", << "Ҋ" >> >>, << "ҍ", << "Ҍ" >> >>,
      << "ҏ", << "Ҏ" >> >>, << "ґ", << "Ґ" >> >>, << "ғ", << "Ғ" >> >>,
      << "ҕ", << "Ҕ" >> >>, << "җ", << "Җ" >> >>, << "ҙ", << "Ҙ" >> >>,
      << "қ", << "Қ" >> >>, << "ҝ", << "Ҝ" >> >>, << "ҟ", << "Ҟ" >> >>,
      << "ҡ", << "Ҡ" >> >>, << "ң", << "Ң" >> >>, << "ҥ", << "Ҥ" >> >>,
      << "ҧ", << "Ҧ" >> >>, << "ҩ", << "Ҩ" >> >>, << "ҫ", << "Ҫ" >> >>,
      << "ҭ", << "Ҭ" >> >>, << "ү", << "Ү" >> >>, << "ұ", << "Ұ" >> >>,
      << "ҳ", << "Ҳ" >> >>, << "ҵ", << "Ҵ" >> >>, << "ҷ", << "Ҷ" >> >>,
      << "ҹ", << "Ҹ" >> >>, << "һ", << "Һ" >> >>, << "ҽ", << "Ҽ" >> >>,
      << "ҿ", << "Ҿ" >> >>, << "ӂ", << "Ӂ" >> >>, << "ӄ", << "Ӄ" >> >>,
      << "ӆ", << "Ӆ" >> >>, << "ӈ", << "Ӈ" >> >>, << "ӊ", << "Ӊ" >> >>,
      << "ӌ", << "Ӌ" >> >>, << "ӎ", << "Ӎ" >> >>, << "ӏ", << "Ӏ" >> >>,
      << "ӑ", << "Ӑ" >> >>, << "ӓ", << "Ӓ" >> >>, << "ӕ", << "Ӕ" >> >>,
      << "ӗ", << "Ӗ" >> >>, << "ә", << "Ә" >> >>, << "ӛ", << "Ӛ" >> >>,
      << "ӝ", << "Ӝ" >> >>, << "ӟ", << "Ӟ" >> >>, << "ӡ", << "Ӡ" >> >>,
      << "ӣ", << "Ӣ" >> >>, << "ӥ", << "Ӥ" >> >>, << "ӧ", << "Ӧ" >> >>,
      << "ө", << "Ө" >> >>, << "ӫ", << "Ӫ" >> >>, << "ӭ", << "Ӭ" >> >>,
      << "ӯ", << "Ӯ" >> >>, << "ӱ", << "Ӱ" >> >>, << "ӳ", << "Ӳ" >> >>,
      << "ӵ", << "Ӵ" >> >>, << "ӷ", << "Ӷ" >> >>, << "ӹ", << "Ӹ" >> >>,
      << "ӻ", << "Ӻ" >> >>, << "ӽ", << "Ӽ" >> >>, << "ӿ", << "Ӿ" >> >>,
      << "U+0501", << "U+0500" >> >>, << "U+0503", << "U+0502" >> >>,
      << "U+0505", << "U+0504" >> >>, << "U+0507", << "U+0506" >> >>,
      << "U+0509", << "U+0508" >> >>, << "U+050B", << "U+050A" >> >>,
      << "U+050D", << "U+050C" >> >>, << "U+050F", << "U+050E" >> >>,
      << "U+0511", << "U+0510" >> >>, << "U+0513", << "U+0512" >> >>,
      << "U+0515", << "U+0514" >> >>, << "U+0517", << "U+0516" >> >>,
      << "U+0519", << "U+0518" >> >>, << "U+051B", << "U+051A" >> >>,
      << "U+051D", << "U+051C" >> >>, << "U+051F", << "U+051E" >> >>,
      << "U+0521", << "U+0520" >> >>, << "U+0523", << "U+0522" >> >>,
      << "U+0525", << "U+0524" >> >>, << "U+0527", << "U+0526" >> >>,
      << "U+0529", << "U+0528" >> >>, << "U+052B", << "U+052A" >> >>,
      << "U+052D", << "U+052C" >> >>, << "U+052F", << "U+052E" >> >>,
      << "U+0561", << "U+0531" >> >>, << "U+0562", << "U+0532" >> >>,
      << "U+0563", << "U+0533" >> >>, << "U+0564", << "U+0534" >> >>,
      << "U+0565", << "U+0535" >> >>, << "U+0566", << "U+0536" >> >>,
      << "U+0567", << "U+0537" >> >>, << "U+0568", << "U+0538" >> >>,
      << "U+0569", << "U+0539" >> >>, << "U+056A", << "U+053A" >> >>,
      << "U+056B", << "U+053B" >> >>, << "U+056C", << "U+053C" >> >>,
      << "U+056D", << "U+053D" >> >>, << "U+056E", << "U+053E" >> >>,
      << "U+056F", << "U+053F" >> >>, << "U+0570", << "U+0540" >> >>,
      << "U+0571", << "U+0541" >> >>, << "U+0572", << "U+0542" >> >>,
      << "U+0573", << "U+0543" >> >>, << "U+0574", << "U+0544" >> >>,
      << "U+0575", << "U+0545" >> >>, << "U+0576", << "U+0546" >> >>,
      << "U+0577", << "U+0547" >> >>, << "U+0578", << "U+0548" >> >>,
      << "U+0579", << "U+0549" >> >>, << "U+057A", << "U+054A" >> >>,
      << "U+057B", << "U+054B" >> >>, << "U+057C", << "U+054C" >> >>,
      << "U+057D", << "U+054D" >> >>, << "U+057E", << "U+054E" >> >>,
      << "U+057F", << "U+054F" >> >>, << "ր", << "U+0550" >> >>,
      << "ց", << "U+0551" >> >>, << "ւ", << "U+0552" >> >>,
      << "փ", << "U+0553" >> >>, << "ք", << "U+0554" >> >>,
      << "օ", << "U+0555" >> >>, << "ֆ", << "U+0556" >> >>,
      << "և", << "U+0535", "U+0552" >> >>, << "ა", << "Ა" >> >>,
      << "ბ", << "Ბ" >> >>, << "გ", << "Გ" >> >>, << "დ", << "Დ" >> >>,
      << "ე", << "Ე" >> >>, << "ვ", << "Ვ" >> >>, << "ზ", << "Ზ" >> >>,
      << "თ", << "Თ" >> >>, << "ი", << "Ი" >> >>, << "კ", << "Კ" >> >>,
      << "ლ", << "Ლ" >> >>, << "მ", << "Მ" >> >>, << "ნ", << "Ნ" >> >>,
      << "ო", << "Ო" >> >>, << "პ", << "Პ" >> >>, << "ჟ", << "Ჟ" >> >>,
      << "რ", << "Რ" >> >>, << "ს", << "Ს" >> >>, << "ტ", << "Ტ" >> >>,
      << "უ", << "Უ" >> >>, << "ფ", << "Ფ" >> >>, << "ქ", << "Ქ" >> >>,
      << "ღ", << "Ღ" >> >>, << "ყ", << "Ყ" >> >>, << "შ", << "Შ" >> >>,
      << "ჩ", << "Ჩ" >> >>, << "ც", << "Ც" >> >>, << "ძ", << "Ძ" >> >>,
      << "წ", << "Წ" >> >>, << "ჭ", << "Ჭ" >> >>, << "ხ", << "Ხ" >> >>,
      << "ჯ", << "Ჯ" >> >>, << "ჰ", << "Ჰ" >> >>, << "ჱ", << "Ჱ" >> >>,
      << "ჲ", << "Ჲ" >> >>, << "ჳ", << "Ჳ" >> >>, << "ჴ", << "Ჴ" >> >>,
      << "ჵ", << "Ჵ" >> >>, << "ჶ", << "Ჶ" >> >>, << "ჷ", << "Ჷ" >> >>,
      << "ჸ", << "Ჸ" >> >>, << "ჹ", << "Ჹ" >> >>, << "ჺ", << "Ჺ" >> >>,
      << "ჽ", << "Ჽ" >> >>, << "ჾ", << "Ჾ" >> >>, << "ჿ", << "Ჿ" >> >>,
      << "ᏸ", << "Ᏸ" >> >>, << "ᏹ", << "Ᏹ" >> >>, << "ᏺ", << "Ᏺ" >> >>,
      << "ᏻ", << "Ᏻ" >> >>, << "ᏼ", << "Ᏼ" >> >>, << "ᏽ", << "Ᏽ" >> >>,
      << "ᲀ", << "U+0412" >> >>, << "ᲁ", << "U+0414" >> >>,
      << "ᲂ", << "U+041E" >> >>, << "ᲃ", << "U+0421" >> >>,
      << "ᲄ", << "U+0422" >> >>, << "ᲅ", << "U+0422" >> >>,
      << "ᲆ", << "U+042A" >> >>, << "ᲇ", << "U+0462" >> >>,
      << "ᲈ", << "U+A64A" >> >>, << "U+1D79", << "U+A77D" >> >>,
      << "U+1D7D", << "U+2C63" >> >>, << "ᶎ", << "Ᶎ" >> >>,
      << "U+1E01", << "U+1E00" >> >>, << "U+1E03", << "U+1E02" >> >>,
      << "U+1E05", << "U+1E04" >> >>, << "U+1E07", << "U+1E06" >> >>,
      << "U+1E09", << "U+1E08" >> >>, << "U+1E0B", << "U+1E0A" >> >>,
      << "U+1E0D", << "U+1E0C" >> >>, << "U+1E0F", << "U+1E0E" >> >>,
      << "U+1E11", << "U+1E10" >> >>, << "U+1E13", << "U+1E12" >> >>,
      << "U+1E15", << "U+1E14" >> >>, << "U+1E17", << "U+1E16" >> >>,
      << "U+1E19", << "U+1E18" >> >>, << "U+1E1B", << "U+1E1A" >> >>,
      << "U+1E1D", << "U+1E1C" >> >>, << "U+1E1F", << "U+1E1E" >> >>,
      << "U+1E21", << "U+1E20" >> >>, << "U+1E23", << "U+1E22" >> >>,
      << "U+1E25", << "U+1E24" >> >>, << "U+1E27", << "U+1E26" >> >>,
      << "U+1E29", << "U+1E28" >> >>, << "U+1E2B", << "U+1E2A" >> >>,
      << "U+1E2D", << "U+1E2C" >> >>, << "U+1E2F", << "U+1E2E" >> >>,
      << "U+1E31", << "U+1E30" >> >>, << "U+1E33", << "U+1E32" >> >>,
      << "U+1E35", << "U+1E34" >> >>, << "U+1E37", << "U+1E36" >> >>,
      << "U+1E39", << "U+1E38" >> >>, << "U+1E3B", << "U+1E3A" >> >>,
      << "U+1E3D", << "U+1E3C" >> >>, << "U+1E3F", << "U+1E3E" >> >>,
      << "U+1E41", << "U+1E40" >> >>, << "U+1E43", << "U+1E42" >> >>,
      << "U+1E45", << "U+1E44" >> >>, << "U+1E47", << "U+1E46" >> >>,
      << "U+1E49", << "U+1E48" >> >>, << "U+1E4B", << "U+1E4A" >> >>,
      << "U+1E4D", << "U+1E4C" >> >>, << "U+1E4F", << "U+1E4E" >> >>,
      << "U+1E51", << "U+1E50" >> >>, << "U+1E53", << "U+1E52" >> >>,
      << "U+1E55", << "U+1E54" >> >>, << "U+1E57", << "U+1E56" >> >>,
      << "U+1E59", << "U+1E58" >> >>, << "U+1E5B", << "U+1E5A" >> >>,
      << "U+1E5D", << "U+1E5C" >> >>, << "U+1E5F", << "U+1E5E" >> >>,
      << "U+1E61", << "U+1E60" >> >>, << "U+1E63", << "U+1E62" >> >>,
      << "U+1E65", << "U+1E64" >> >>, << "U+1E67", << "U+1E66" >> >>,
      << "U+1E69", << "U+1E68" >> >>, << "U+1E6B", << "U+1E6A" >> >>,
      << "U+1E6D", << "U+1E6C" >> >>, << "U+1E6F", << "U+1E6E" >> >>,
      << "U+1E71", << "U+1E70" >> >>, << "U+1E73", << "U+1E72" >> >>,
      << "U+1E75", << "U+1E74" >> >>, << "U+1E77", << "U+1E76" >> >>,
      << "U+1E79", << "U+1E78" >> >>, << "U+1E7B", << "U+1E7A" >> >>,
      << "U+1E7D", << "U+1E7C" >> >>, << "U+1E7F", << "U+1E7E" >> >>,
      << "ẁ", << "Ẁ" >> >>, << "ẃ", << "Ẃ" >> >>, << "ẅ", << "Ẅ" >> >>,
      << "ẇ", << "Ẇ" >> >>, << "ẉ", << "Ẉ" >> >>, << "ẋ", << "Ẋ" >> >>,
      << "ẍ", << "Ẍ" >> >>, << "ẏ", << "Ẏ" >> >>, << "ẑ", << "Ẑ" >> >>,
      << "ẓ", << "Ẓ" >> >>, << "ẕ", << "Ẕ" >> >>,
      << "ẖ", << "H", "U+0331" >> >>, << "ẗ", << "T", "U+0308" >> >>,
      << "ẘ", << "W", "U+030A" >> >>, << "ẙ", << "Y", "U+030A" >> >>,
      << "ẚ", << "A", "ʾ" >> >>, << "ẛ", << "U+1E60" >> >>,
      << "ạ", << "Ạ" >> >>, << "ả", << "Ả" >> >>, << "ấ", << "Ấ" >> >>,
      << "ầ", << "Ầ" >> >>, << "ẩ", << "Ẩ" >> >>, << "ẫ", << "Ẫ" >> >>,
      << "ậ", << "Ậ" >> >>, << "ắ", << "Ắ" >> >>, << "ằ", << "Ằ" >> >>,
      << "ẳ", << "Ẳ" >> >>, << "ẵ", << "Ẵ" >> >>, << "ặ", << "Ặ" >> >>,
      << "ẹ", << "Ẹ" >> >>, << "ẻ", << "Ẻ" >> >>, << "ẽ", << "Ẽ" >> >>,
      << "ế", << "Ế" >> >>, << "ề", << "Ề" >> >>, << "ể", << "Ể" >> >>,
      << "ễ", << "Ễ" >> >>, << "ệ", << "Ệ" >> >>, << "ỉ", << "Ỉ" >> >>,
      << "ị", << "Ị" >> >>, << "ọ", << "Ọ" >> >>, << "ỏ", << "Ỏ" >> >>,
      << "ố", << "Ố" >> >>, << "ồ", << "Ồ" >> >>, << "ổ", << "Ổ" >> >>,
      << "ỗ", << "Ỗ" >> >>, << "ộ", << "Ộ" >> >>, << "ớ", << "Ớ" >> >>,
      << "ờ", << "Ờ" >> >>, << "ở", << "Ở" >> >>, << "ỡ", << "Ỡ" >> >>,
      << "ợ", << "Ợ" >> >>, << "ụ", << "Ụ" >> >>, << "ủ", << "Ủ" >> >>,
      << "ứ", << "Ứ" >> >>, << "ừ", << "Ừ" >> >>, << "ử", << "Ử" >> >>,
      << "ữ", << "Ữ" >> >>, << "ự", << "Ự" >> >>, << "ỳ", << "Ỳ" >> >>,
      << "ỵ", << "Ỵ" >> >>, << "ỷ", << "Ỷ" >> >>, << "ỹ", << "Ỹ" >> >>,
      << "ỻ", << "Ỻ" >> >>, << "ỽ", << "Ỽ" >> >>, << "ỿ", << "Ỿ" >> >>,
      << "U+1F00", << "U+1F08" >> >>, << "U+1F01", << "U+1F09" >> >>,
      << "U+1F02", << "U+1F0A" >> >>, << "U+1F03", << "U+1F0B" >> >>,
      << "U+1F04", << "U+1F0C" >> >>, << "U+1F05", << "U+1F0D" >> >>,
      << "U+1F06", << "U+1F0E" >> >>, << "U+1F07", << "U+1F0F" >> >>,
      << "U+1F10", << "U+1F18" >> >>, << "U+1F11", << "U+1F19" >> >>,
      << "U+1F12", << "U+1F1A" >> >>, << "U+1F13", << "U+1F1B" >> >>,
      << "U+1F14", << "U+1F1C" >> >>, << "U+1F15", << "U+1F1D" >> >>,
      << "U+1F20", << "U+1F28" >> >>, << "U+1F21", << "U+1F29" >> >>,
      << "U+1F22", << "U+1F2A" >> >>, << "U+1F23", << "U+1F2B" >> >>,
      << "U+1F24", << "U+1F2C" >> >>, << "U+1F25", << "U+1F2D" >> >>,
      << "U+1F26", << "U+1F2E" >> >>, << "U+1F27", << "U+1F2F" >> >>,
      << "U+1F30", << "U+1F38" >> >>, << "U+1F31", << "U+1F39" >> >>,
      << "U+1F32", << "U+1F3A" >> >>, << "U+1F33", << "U+1F3B" >> >>,
      << "U+1F34", << "U+1F3C" >> >>, << "U+1F35", << "U+1F3D" >> >>,
      << "U+1F36", << "U+1F3E" >> >>, << "U+1F37", << "U+1F3F" >> >>,
      << "U+1F40", << "U+1F48" >> >>, << "U+1F41", << "U+1F49" >> >>,
      << "U+1F42", << "U+1F4A" >> >>, << "U+1F43", << "U+1F4B" >> >>,
      << "U+1F44", << "U+1F4C" >> >>, << "U+1F45", << "U+1F4D" >> >>,
      << "U+1F50", << "Υ", "U+0313" >> >>, << "U+1F51", << "U+1F59" >> >>,
      << "U+1F52", << "Υ", "U+0313", "U+0300" >> >>,
      << "U+1F53", << "U+1F5B" >> >>,
      << "U+1F54", << "Υ", "U+0313", "U+0301" >> >>,
      << "U+1F55", << "U+1F5D" >> >>,
      << "U+1F56", << "Υ", "U+0313", "U+0342" >> >>,
      << "U+1F57", << "U+1F5F" >> >>, << "U+1F60", << "U+1F68" >> >>,
      << "U+1F61", << "U+1F69" >> >>, << "U+1F62", << "U+1F6A" >> >>,
      << "U+1F63", << "U+1F6B" >> >>, << "U+1F64", << "U+1F6C" >> >>,
      << "U+1F65", << "U+1F6D" >> >>, << "U+1F66", << "U+1F6E" >> >>,
      << "U+1F67", << "U+1F6F" >> >>, << "U+1F70", << "Ὰ" >> >>,
      << "U+1F71", << "Ά" >> >>, << "U+1F72", << "Ὲ" >> >>,
      << "U+1F73", << "Έ" >> >>, << "U+1F74", << "Ὴ" >> >>,
      << "U+1F75", << "Ή" >> >>, << "U+1F76", << "Ὶ" >> >>,
      << "U+1F77", << "Ί" >> >>, << "U+1F78", << "Ὸ" >> >>,
      << "U+1F79", << "Ό" >> >>, << "U+1F7A", << "Ὺ" >> >>,
      << "U+1F7B", << "Ύ" >> >>, << "U+1F7C", << "Ὼ" >> >>,
      << "U+1F7D", << "Ώ" >> >>, << "ᾀ", << "U+1F08", "Ι" >> >>,
      << "ᾁ", << "U+1F09", "Ι" >> >>, << "ᾂ", << "U+1F0A", "Ι" >> >>,
      << "ᾃ", << "U+1F0B", "Ι" >> >>, << "ᾄ", << "U+1F0C", "Ι" >> >>,
      << "ᾅ", << "U+1F0D", "Ι" >> >>, << "ᾆ", << "U+1F0E", "Ι" >> >>,
      << "ᾇ", << "U+1F0F", "Ι" >> >>, << "ᾈ", << "U+1F08", "Ι" >> >>,
      << "ᾉ", << "U+1F09", "Ι" >> >>, << "ᾊ", << "U+1F0A", "Ι" >> >>,
      << "ᾋ", << "U+1F0B", "Ι" >> >>, << "ᾌ", << "U+1F0C", "Ι" >> >>,
      << "ᾍ", << "U+1F0D", "Ι" >> >>, << "ᾎ", << "U+1F0E", "Ι" >> >>,
      << "ᾏ", << "U+1F0F", "Ι" >> >>, << "ᾐ", << "U+1F28", "Ι" >> >>,
      << "ᾑ", << "U+1F29", "Ι" >> >>, << "ᾒ", << "U+1F2A", "Ι" >> >>,
      << "ᾓ", << "U+1F2B", "Ι" >> >>, << "ᾔ", << "U+1F2C", "Ι" >> >>,
      << "ᾕ", << "U+1F2D", "Ι" >> >>, << "ᾖ", << "U+1F2E", "Ι" >> >>,
      << "ᾗ", << "U+1F2F", "Ι" >> >>, << "ᾘ", << "U+1F28", "Ι" >> >>,
      << "ᾙ", << "U+1F29", "Ι" >> >>, << "ᾚ", << "U+1F2A", "Ι" >> >>,
      << "ᾛ", << "U+1F2B", "Ι" >> >>, << "ᾜ", << "U+1F2C", "Ι" >> >>,
      << "ᾝ", << "U+1F2D", "Ι" >> >>, << "ᾞ", << "U+1F2E", "Ι" >> >>,
      << "ᾟ", << "U+1F2F", "Ι" >> >>, << "ᾠ", << "U+1F68", "Ι" >> >>,
      << "ᾡ", << "U+1F69", "Ι" >> >>, << "ᾢ", << "U+1F6A", "Ι" >> >>,
      << "ᾣ", << "U+1F6B", "Ι" >> >>, << "ᾤ", << "U+1F6C", "Ι" >> >>,
      << "ᾥ", << "U+1F6D", "Ι" >> >>, << "ᾦ", << "U+1F6E", "Ι" >> >>,
      << "ᾧ", << "U+1F6F", "Ι" >> >>, << "ᾨ", << "U+1F68", "Ι" >> >>,
      << "ᾩ", << "U+1F69", "Ι" >> >>, << "ᾪ", << "U+1F6A", "Ι" >> >>,
      << "ᾫ", << "U+1F6B", "Ι" >> >>, << "ᾬ", << "U+1F6C", "Ι" >> >>,
      << "ᾭ", << "U+1F6D", "Ι" >> >>, << "ᾮ", << "U+1F6E", "Ι" >> >>,
      << "ᾯ", << "U+1F6F", "Ι" >> >>, << "ᾰ", << "Ᾰ" >> >>,
      << "ᾱ", << "Ᾱ" >> >>, << "ᾲ", << "Ὰ", "Ι" >> >>,
      << "ᾳ", << "Α", "Ι" >> >>, << "ᾴ", << "Ά", "Ι" >> >>,
      << "ᾶ", << "Α", "U+0342" >> >>, << "ᾷ", << "Α", "U+0342", "Ι" >> >>,
      << "ᾼ", << "Α", "Ι" >> >>, << "ι", << "Ι" >> >>,
      << "ῂ", << "Ὴ", "Ι" >> >>, << "ῃ", << "Η", "Ι" >> >>,
      << "ῄ", << "Ή", "Ι" >> >>, << "ῆ", << "Η", "U+0342" >> >>,
      << "ῇ", << "Η", "U+0342", "Ι" >> >>, << "ῌ", << "Η", "Ι" >> >>,
      << "ῐ", << "Ῐ" >> >>, << "ῑ", << "Ῑ" >> >>,
      << "ῒ", << "Ι", "U+0308", "U+0300" >> >>,
      << "ΐ", << "Ι", "U+0308", "U+0301" >> >>,
      << "ῖ", << "Ι", "U+0342" >> >>,
      << "ῗ", << "Ι", "U+0308", "U+0342" >> >>, << "ῠ", << "Ῠ" >> >>,
      << "ῡ", << "Ῡ" >> >>, << "ῢ", << "Υ", "U+0308", "U+0300" >> >>,
      << "ΰ", << "Υ", "U+0308", "U+0301" >> >>,
      << "ῤ", << "Ρ", "U+0313" >> >>, << "ῥ", << "Ῥ" >> >>,
      << "ῦ", << "Υ", "U+0342" >> >>,
      << "ῧ", << "Υ", "U+0308", "U+0342" >> >>, << "ῲ", << "Ὼ", "Ι" >> >>,
      << "ῳ", << "Ω", "Ι" >> >>, << "ῴ", << "Ώ", "Ι" >> >>,
      << "ῶ", << "Ω", "U+0342" >> >>, << "ῷ", << "Ω", "U+0342", "Ι" >> >>,
      << "ῼ", << "Ω", "Ι" >> >>, << "U+214E", << "U+2132" >> >>,
      << "U+2170", << "U+2160" >> >>, << "U+2171", << "U+2161" >> >>,
      << "U+2172", << "U+2162" >> >>, << "U+2173", << "U+2163" >> >>,
      << "U+2174", << "U+2164" >> >>, << "U+2175", << "U+2165" >> >>,
      << "U+2176", << "U+2166" >> >>, << "U+2177", << "U+2167" >> >>,
      << "U+2178", << "U+2168" >> >>, << "U+2179", << "U+2169" >> >>,
      << "U+217A", << "U+216A" >> >>, << "U+217B", << "U+216B" >> >>,
      << "U+217C", << "U+216C" >> >>, << "U+217D", << "U+216D" >> >>,
      << "U+217E", << "U+216E" >> >>, << "U+217F", << "U+216F" >> >>,
      << "ↄ", << "Ↄ" >> >>, << "ⓐ", << "Ⓐ" >> >>, << "ⓑ", << "Ⓑ" >> >>,
      << "ⓒ", << "Ⓒ" >> >>, << "ⓓ", << "Ⓓ" >> >>, << "ⓔ", << "Ⓔ" >> >>,
      << "ⓕ", << "Ⓕ" >> >>, << "ⓖ", << "Ⓖ" >> >>, << "ⓗ", << "Ⓗ" >> >>,
      << "ⓘ", << "Ⓘ" >> >>, << "ⓙ", << "Ⓙ" >> >>, << "ⓚ", << "Ⓚ" >> >>,
      << "ⓛ", << "Ⓛ" >> >>, << "ⓜ", << "Ⓜ" >> >>, << "ⓝ", << "Ⓝ" >> >>,
      << "ⓞ", << "Ⓞ" >> >>, << "ⓟ", << "Ⓟ" >> >>, << "ⓠ", << "Ⓠ" >> >>,
      << "ⓡ", << "Ⓡ" >> >>, << "ⓢ", << "Ⓢ" >> >>, << "ⓣ", << "Ⓣ" >> >>,
      << "ⓤ", << "Ⓤ" >> >>, << "ⓥ", << "Ⓥ" >> >>, << "ⓦ", << "Ⓦ" >> >>,
      << "ⓧ", << "Ⓧ" >> >>, << "ⓨ", << "Ⓨ" >> >>, << "ⓩ", << "Ⓩ" >> >>,
      << "U+2C30", << "U+2C00" >> >>, << "U+2C31", << "U+2C01" >> >>,
      << "U+2C32", << "U+2C02" >> >>, << "U+2C33", << "U+2C03" >> >>,
      << "U+2C34", << "U+2C04" >> >>, << "U+2C35", << "U+2C05" >> >>,
      << "U+2C36", << "U+2C06" >> >>, << "U+2C37", << "U+2C07" >> >>,
      << "U+2C38", << "U+2C08" >> >>, << "U+2C39", << "U+2C09" >> >>,
      << "U+2C3A", << "U+2C0A" >> >>, << "U+2C3B", << "U+2C0B" >> >>,
      << "U+2C3C", << "U+2C0C" >> >>, << "U+2C3D", << "U+2C0D" >> >>,
      << "U+2C3E", << "U+2C0E" >> >>, << "U+2C3F", << "U+2C0F" >> >>,
      << "U+2C40", << "U+2C10" >> >>, << "U+2C41", << "U+2C11" >> >>,
      << "U+2C42", << "U+2C12" >> >>, << "U+2C43", << "U+2C13" >> >>,
      << "U+2C44", << "U+2C14" >> >>, << "U+2C45", << "U+2C15" >> >>,
      << "U+2C46", << "U+2C16" >> >>, << "U+2C47", << "U+2C17" >> >>,
      << "U+2C48", << "U+2C18" >> >>, << "U+2C49", << "U+2C19" >> >>,
      << "U+2C4A", << "U+2C1A" >> >>, << "U+2C4B", << "U+2C1B" >> >>,
      << "U+2C4C", << "U+2C1C" >> >>, << "U+2C4D", << "U+2C1D" >> >>,
      << "U+2C4E", << "U+2C1E" >> >>, << "U+2C4F", << "U+2C1F" >> >>,
      << "U+2C50", << "U+2C20" >> >>, << "U+2C51", << "U+2C21" >> >>,
      << "U+2C52", << "U+2C22" >> >>, << "U+2C53", << "U+2C23" >> >>,
      << "U+2C54", << "U+2C24" >> >>, << "U+2C55", << "U+2C25" >> >>,
      << "U+2C56", << "U+2C26" >> >>, << "U+2C57", << "U+2C27" >> >>,
      << "U+2C58", << "U+2C28" >> >>, << "U+2C59", << "U+2C29" >> >>,
      << "U+2C5A", << "U+2C2A" >> >>, << "U+2C5B", << "U+2C2B" >> >>,
      << "U+2C5C", << "U+2C2C" >> >>, << "U+2C5D", << "U+2C2D" >> >>,
      << "U+2C5E", << "U+2C2E" >> >>, << "U+2C5F", << "U+2C2F" >> >>,
      << "U+2C61", << "U+2C60" >> >>, << "U+2C65", << "U+023A" >> >>,
      << "U+2C66", << "U+023E" >> >>, << "U+2C68", << "U+2C67" >> >>,
      << "U+2C6A", << "U+2C69" >> >>, << "U+2C6C", << "U+2C6B" >> >>,
      << "U+2C73", << "U+2C72" >> >>, << "U+2C76", << "U+2C75" >> >>,
      << "ⲁ", << "Ⲁ" >> >>, << "ⲃ", << "Ⲃ" >> >>, << "ⲅ", << "Ⲅ" >> >>,
      << "ⲇ", << "Ⲇ" >> >>, << "ⲉ", << "Ⲉ" >> >>, << "ⲋ", << "Ⲋ" >> >>,
      << "ⲍ", << "Ⲍ" >> >>, << "ⲏ", << "Ⲏ" >> >>, << "ⲑ", << "Ⲑ" >> >>,
      << "ⲓ", << "Ⲓ" >> >>, << "ⲕ", << "Ⲕ" >> >>, << "ⲗ", << "Ⲗ" >> >>,
      << "ⲙ", << "Ⲙ" >> >>, << "ⲛ", << "Ⲛ" >> >>, << "ⲝ", << "Ⲝ" >> >>,
      << "ⲟ", << "Ⲟ" >> >>, << "ⲡ", << "Ⲡ" >> >>, << "ⲣ", << "Ⲣ" >> >>,
      << "ⲥ", << "Ⲥ" >> >>, << "ⲧ", << "Ⲧ" >> >>, << "ⲩ", << "Ⲩ" >> >>,
      << "ⲫ", << "Ⲫ" >> >>, << "ⲭ", << "Ⲭ" >> >>, << "ⲯ", << "Ⲯ" >> >>,
      << "ⲱ", << "Ⲱ" >> >>, << "ⲳ", << "Ⲳ" >> >>, << "ⲵ", << "Ⲵ" >> >>,
      << "ⲷ", << "Ⲷ" >> >>, << "ⲹ", << "Ⲹ" >> >>, << "ⲻ", << "Ⲻ" >> >>,
      << "ⲽ", << "Ⲽ" >> >>, << "ⲿ", << "Ⲿ" >> >>, << "ⳁ", << "Ⳁ" >> >>,
      << "ⳃ", << "Ⳃ" >> >>, << "ⳅ", << "Ⳅ" >> >>, << "ⳇ", << "Ⳇ" >> >>,
      << "ⳉ", << "Ⳉ" >> >>, << "ⳋ", << "Ⳋ" >> >>, << "ⳍ", << "Ⳍ" >> >>,
      << "ⳏ", << "Ⳏ" >> >>, << "ⳑ", << "Ⳑ" >> >>, << "ⳓ", << "Ⳓ" >> >>,
      << "ⳕ", << "Ⳕ" >> >>, << "ⳗ", << "Ⳗ" >> >>, << "ⳙ", << "Ⳙ" >> >>,
      << "ⳛ", << "Ⳛ" >> >>, << "ⳝ", << "Ⳝ" >> >>, << "ⳟ", << "Ⳟ" >> >>,
      << "ⳡ", << "Ⳡ" >> >>, << "ⳣ", << "Ⳣ" >> >>, << "ⳬ", << "Ⳬ" >> >>,
      << "ⳮ", << "Ⳮ" >> >>, << "ⳳ", << "Ⳳ" >> >>, << "U+2D00", << "Ⴀ" >> >>,
      << "U+2D01", << "Ⴁ" >> >>, << "U+2D02", << "Ⴂ" >> >>,
      << "U+2D03", << "Ⴃ" >> >>, << "U+2D04", << "Ⴄ" >> >>,
      << "U+2D05", << "Ⴅ" >> >>, << "U+2D06", << "Ⴆ" >> >>,
      << "U+2D07", << "Ⴇ" >> >>, << "U+2D08", << "Ⴈ" >> >>,
      << "U+2D09", << "Ⴉ" >> >>, << "U+2D0A", << "Ⴊ" >> >>,
      << "U+2D0B", << "Ⴋ" >> >>, << "U+2D0C", << "Ⴌ" >> >>,
      << "U+2D0D", << "Ⴍ" >> >>, << "U+2D0E", << "Ⴎ" >> >>,
      << "U+2D0F", << "Ⴏ" >> >>, << "U+2D10", << "Ⴐ" >> >>,
      << "U+2D11", << "Ⴑ" >> >>, << "U+2D12", << "Ⴒ" >> >>,
      << "U+2D13", << "Ⴓ" >> >>, << "U+2D14", << "Ⴔ" >> >>,
      << "U+2D15", << "Ⴕ" >> >>, << "U+2D16", << "Ⴖ" >> >>,
      << "U+2D17", << "Ⴗ" >> >>, << "U+2D18", << "Ⴘ" >> >>,
      << "U+2D19", << "Ⴙ" >> >>, << "U+2D1A", << "Ⴚ" >> >>,
      << "U+2D1B", << "Ⴛ" >> >>, << "U+2D1C", << "Ⴜ" >> >>,
      << "U+2D1D", << "Ⴝ" >> >>, << "U+2D1E", << "Ⴞ" >> >>,
      << "U+2D1F", << "Ⴟ" >> >>, << "U+2D20", << "Ⴠ" >> >>,
      << "U+2D21", << "Ⴡ" >> >>, << "U+2D22", << "Ⴢ" >> >>,
      << "U+2D23", << "Ⴣ" >> >>, << "U+2D24", << "Ⴤ" >> >>,
      << "U+2D25", << "Ⴥ" >> >>, << "U+2D27", << "Ⴧ" >> >>,
      << "U+2D2D", << "Ⴭ" >> >>, << "U+A641", << "U+A640" >> >>,
      << "U+A643", << "U+A642" >> >>, << "U+A645", << "U+A644" >> >>,
      << "U+A647", << "U+A646" >> >>, << "U+A649", << "U+A648" >> >>,
      << "U+A64B", << "U+A64A" >> >>, << "U+A64D", << "U+A64C" >> >>,
      << "U+A64F", << "U+A64E" >> >>, << "U+A651", << "U+A650" >> >>,
      << "U+A653", << "U+A652" >> >>, << "U+A655", << "U+A654" >> >>,
      << "U+A657", << "U+A656" >> >>, << "U+A659", << "U+A658" >> >>,
      << "U+A65B", << "U+A65A" >> >>, << "U+A65D", << "U+A65C" >> >>,
      << "U+A65F", << "U+A65E" >> >>, << "U+A661", << "U+A660" >> >>,
      << "U+A663", << "U+A662" >> >>, << "U+A665", << "U+A664" >> >>,
      << "U+A667", << "U+A666" >> >>, << "U+A669", << "U+A668" >> >>,
      << "U+A66B", << "U+A66A" >> >>, << "U+A66D", << "U+A66C" >> >>,
      << "ꚁ", << "Ꚁ" >> >>, << "ꚃ", << "Ꚃ" >> >>, << "ꚅ", << "Ꚅ" >> >>,
      << "ꚇ", << "Ꚇ" >> >>, << "ꚉ", << "Ꚉ" >> >>, << "ꚋ", << "Ꚋ" >> >>,
      << "ꚍ", << "Ꚍ" >> >>, << "ꚏ", << "Ꚏ" >> >>, << "ꚑ", << "Ꚑ" >> >>,
      << "ꚓ", << "Ꚓ" >> >>, << "ꚕ", << "Ꚕ" >> >>, << "ꚗ", << "Ꚗ" >> >>,
      << "ꚙ", << "Ꚙ" >> >>, << "ꚛ", << "Ꚛ" >> >>,
      << "U+A723", << "U+A722" >> >>, << "U+A725", << "U+A724" >> >>,
      << "U+A727", << "U+A726" >> >>, << "U+A729", << "U+A728" >> >>,
      << "U+A72B", << "U+A72A" >> >>, << "U+A72D", << "U+A72C" >> >>,
      << "U+A72F", << "U+A72E" >> >>, << "U+A733", << "U+A732" >> >>,
      << "U+A735", << "U+A734" >> >>, << "U+A737", << "U+A736" >> >>,
      << "U+A739", << "U+A738" >> >>, << "U+A73B", << "U+A73A" >> >>,
      << "U+A73D", << "U+A73C" >> >>, << "U+A73F", << "U+A73E" >> >>,
      << "U+A741", << "U+A740" >> >>, << "U+A743", << "U+A742" >> >>,
      << "U+A745", << "U+A744" >> >>, << "U+A747", << "U+A746" >> >>,
      << "U+A749", << "U+A748" >> >>, << "U+A74B", << "U+A74A" >> >>,
      << "U+A74D", << "U+A74C" >> >>, << "U+A74F", << "U+A74E" >> >>,
      << "U+A751", << "U+A750" >> >>, << "U+A753", << "U+A752" >> >>,
      << "U+A755", << "U+A754" >> >>, << "U+A757", << "U+A756" >> >>,
      << "U+A759", << "U+A758" >> >>, << "U+A75B", << "U+A75A" >> >>,
      << "U+A75D", << "U+A75C" >> >>, << "U+A75F", << "U+A75E" >> >>,
      << "U+A761", << "U+A760" >> >>, << "U+A763", << "U+A762" >> >>,
      << "U+A765", << "U+A764" >> >>, << "U+A767", << "U+A766" >> >>,
      << "U+A769", << "U+A768" >> >>, << "U+A76B", << "U+A76A" >> >>,
      << "U+A76D", << "U+A76C" >> >>, << "U+A76F", << "U+A76E" >> >>,
      << "U+A77A", << "U+A779" >> >>, << "U+A77C", << "U+A77B" >> >>,
      << "U+A77F", << "U+A77E" >> >>, << "ꞁ", << "Ꞁ" >> >>,
      << "ꞃ", << "Ꞃ" >> >>, << "ꞅ", << "Ꞅ" >> >>, << "ꞇ", << "Ꞇ" >> >>,
      << "ꞌ", << "Ꞌ" >> >>, << "ꞑ", << "Ꞑ" >> >>, << "ꞓ", << "Ꞓ" >> >>,
      << "ꞔ", << "Ꞔ" >> >>, << "ꞗ", << "Ꞗ" >> >>, << "ꞙ", << "Ꞙ" >> >>,
      << "ꞛ", << "Ꞛ" >> >>, << "ꞝ", << "Ꞝ" >> >>, << "ꞟ", << "Ꞟ" >> >>,
      << "ꞡ", << "Ꞡ" >> >>, << "ꞣ", << "Ꞣ" >> >>, << "ꞥ", << "Ꞥ" >> >>,
      << "ꞧ", << "Ꞧ" >> >>, << "ꞩ", << "Ꞩ" >> >>, << "ꞵ", << "Ꞵ" >> >>,
      << "ꞷ", << "Ꞷ" >> >>, << "ꞹ", << "Ꞹ" >> >>, << "ꞻ", << "Ꞻ" >> >>,
      << "ꞽ", << "Ꞽ" >> >>, << "ꞿ", << "Ꞿ" >> >>, << "ꟁ", << "Ꟁ" >> >>,
      << "ꟃ", << "Ꟃ" >> >>, << "ꟈ", << "Ꟈ" >> >>, << "ꟊ", << "Ꟊ" >> >>,
      << "ꟑ", << "Ꟑ" >> >>, << "ꟗ", << "Ꟗ" >> >>, << "ꟙ", << "Ꟙ" >> >>,
      << "ꟶ", << "Ꟶ" >> >>, << "U+AB53", << "Ꭓ" >> >>,
      << "U+AB70", << "Ꭰ" >> >>, << "U+AB71", << "Ꭱ" >> >>,
      << "U+AB72", << "Ꭲ" >> >>, << "U+AB73", << "Ꭳ" >> >>,
      << "U+AB74", << "Ꭴ" >> >>, << "U+AB75", << "Ꭵ" >> >>,
      << "U+AB76", << "Ꭶ" >> >>, << "U+AB77", << "Ꭷ" >> >>,
      << "U+AB78", << "Ꭸ" >> >>, << "U+AB79", << "Ꭹ" >> >>,
      << "U+AB7A", << "Ꭺ" >> >>, << "U+AB7B", << "Ꭻ" >> >>,
      << "U+AB7C", << "Ꭼ" >> >>, << "U+AB7D", << "Ꭽ" >> >>,
      << "U+AB7E", << "Ꭾ" >> >>, << "U+AB7F", << "Ꭿ" >> >>,
      << "ꮀ", << "Ꮀ" >> >>, << "ꮁ", << "Ꮁ" >> >>, << "ꮂ", << "Ꮂ" >> >>,
      << "ꮃ", << "Ꮃ" >> >>, << "ꮄ", << "Ꮄ" >> >>, << "ꮅ", << "Ꮅ" >> >>,
      << "ꮆ", << "Ꮆ" >> >>, << "ꮇ", << "Ꮇ" >> >>, << "ꮈ", << "Ꮈ" >> >>,
      << "ꮉ", << "Ꮉ" >> >>, << "ꮊ", << "Ꮊ" >> >>, << "ꮋ", << "Ꮋ" >> >>,
      << "ꮌ", << "Ꮌ" >> >>, << "ꮍ", << "Ꮍ" >> >>, << "ꮎ", << "Ꮎ" >> >>,
      << "ꮏ", << "Ꮏ" >> >>, << "ꮐ", << "Ꮐ" >> >>, << "ꮑ", << "Ꮑ" >> >>,
      << "ꮒ", << "Ꮒ" >> >>, << "ꮓ", << "Ꮓ" >> >>, << "ꮔ", << "Ꮔ" >> >>,
      << "ꮕ", << "Ꮕ" >> >>, << "ꮖ", << "Ꮖ" >> >>, << "ꮗ", << "Ꮗ" >> >>,
      << "ꮘ", << "Ꮘ" >> >>, << "ꮙ", << "Ꮙ" >> >>, << "ꮚ", << "Ꮚ" >> >>,
      << "ꮛ", << "Ꮛ" >> >>, << "ꮜ", << "Ꮜ" >> >>, << "ꮝ", << "Ꮝ" >> >>,
      << "ꮞ", << "Ꮞ" >> >>, << "ꮟ", << "Ꮟ" >> >>, << "ꮠ", << "Ꮠ" >> >>,
      << "ꮡ", << "Ꮡ" >> >>, << "ꮢ", << "Ꮢ" >> >>, << "ꮣ", << "Ꮣ" >> >>,
      << "ꮤ", << "Ꮤ" >> >>, << "ꮥ", << "Ꮥ" >> >>, << "ꮦ", << "Ꮦ" >> >>,
      << "ꮧ", << "Ꮧ" >> >>, << "ꮨ", << "Ꮨ" >> >>, << "ꮩ", << "Ꮩ" >> >>,
      << "ꮪ", << "Ꮪ" >> >>, << "ꮫ", << "Ꮫ" >> >>, << "ꮬ", << "Ꮬ" >> >>,
      << "ꮭ", << "Ꮭ" >> >>, << "ꮮ", << "Ꮮ" >> >>, << "ꮯ", << "Ꮯ" >> >>,
      << "ꮰ", << "Ꮰ" >> >>, << "ꮱ", << "Ꮱ" >> >>, << "ꮲ", << "Ꮲ" >> >>,
      << "ꮳ", << "Ꮳ" >> >>, << "ꮴ", << "Ꮴ" >> >>, << "ꮵ", << "Ꮵ" >> >>,
      << "ꮶ", << "Ꮶ" >> >>, << "ꮷ", << "Ꮷ" >> >>, << "ꮸ", << "Ꮸ" >> >>,
      << "ꮹ", << "Ꮹ" >> >>, << "ꮺ", << "Ꮺ" >> >>, << "ꮻ", << "Ꮻ" >> >>,
      << "ꮼ", << "Ꮼ" >> >>, << "ꮽ", << "Ꮽ" >> >>, << "ꮾ", << "Ꮾ" >> >>,
      << "ꮿ", << "Ꮿ" >> >>, << "U+FB00", << "F", "F" >> >>,
      << "U+FB01", << "F", "I" >> >>, << "U+FB02", << "F", "L" >> >>,
      << "U+FB03", << "F", "F", "I" >> >>,
      << "U+FB04", << "F", "F", "L" >> >>, << "U+FB05", << "S", "T" >> >>,
      << "U+FB06", << "S", "T" >> >>,
      << "U+FB13", << "U+0544", "U+0546" >> >>,
      << "U+FB14", << "U+0544", "U+0535" >> >>,
      << "U+FB15", << "U+0544", "U+053B" >> >>,
      << "U+FB16", << "U+054E", "U+0546" >> >>,
      << "U+FB17", << "U+0544", "U+053D" >> >>,
      << "U+FF41", << "U+FF21" >> >>, << "U+FF42", << "U+FF22" >> >>,
      << "U+FF43", << "U+FF23" >> >>, << "U+FF44", << "U+FF24" >> >>,
      << "U+FF45", << "U+FF25" >> >>, << "U+FF46", << "U+FF26" >> >>,
      << "U+FF47", << "U+FF27" >> >>, << "U+FF48", << "U+FF28" >> >>,
      << "U+FF49", << "U+FF29" >> >>, << "U+FF4A", << "U+FF2A" >> >>,
      << "U+FF4B", << "U+FF2B" >> >>, << "U+FF4C", << "U+FF2C" >> >>,
      << "U+FF4D", << "U+FF2D" >> >>, << "U+FF4E", << "U+FF2E" >> >>,
      << "U+FF4F", << "U+FF2F" >> >>, << "U+FF50", << "U+FF30" >> >>,
      << "U+FF51", << "U+FF31" >> >>, << "U+FF52", << "U+FF32" >> >>,
      << "U+FF53", << "U+FF33" >> >>, << "U+FF54", << "U+FF34" >> >>,
      << "U+FF55", << "U+FF35" >> >>, << "U+FF56", << "U+FF36" >> >>,
      << "U+FF57", << "U+FF37" >> >>, << "U+FF58", << "U+FF38" >> >>,
      << "U+FF59", << "U+FF39" >> >>, << "U+FF5A", << "U+FF3A" >> >>,
      << "U+10428", << "U+10400" >> >>, << "U+10429", << "U+10401" >> >>,
      << "U+1042A", << "U+10402" >> >>, << "U+1042B", << "U+10403" >> >>,
      << "U+1042C", << "U+10404" >> >>, << "U+1042D", << "U+10405" >> >>,
      << "U+1042E", << "U+10406" >> >>, << "U+1042F", << "U+10407" >> >>,
      << "U+10430", << "U+10408" >> >>, << "U+10431", << "U+10409" >> >>,
      << "U+10432", << "U+1040A" >> >>, << "U+10433", << "U+1040B" >> >>,
      << "U+10434", << "U+1040C" >> >>, << "U+10435", << "U+1040D" >> >>,
      << "U+10436", << "U+1040E" >> >>, << "U+10437", << "U+1040F" >> >>,
      << "U+10438", << "U+10410" >> >>, << "U+10439", << "U+10411" >> >>,
      << "U+1043A", << "U+10412" >> >>, << "U+1043B", << "U+10413" >> >>,
      << "U+1043C", << "U+10414" >> >>, << "U+1043D", << "U+10415" >> >>,
      << "U+1043E", << "U+10416" >> >>, << "U+1043F", << "U+10417" >> >>,
      << "U+10440", << "U+10418" >> >>, << "U+10441", << "U+10419" >> >>,
      << "U+10442", << "U+1041A" >> >>, << "U+10443", << "U+1041B" >> >>,
      << "U+10444", << "U+1041C" >> >>, << "U+10445", << "U+1041D" >> >>,
      << "U+10446", << "U+1041E" >> >>, << "U+10447", << "U+1041F" >> >>,
      << "U+10448", << "U+10420" >> >>, << "U+10449", << "U+10421" >> >>,
      << "U+1044A", << "U+10422" >> >>, << "U+1044B", << "U+10423" >> >>,
      << "U+1044C", << "U+10424" >> >>, << "U+1044D", << "U+10425" >> >>,
      << "U+1044E", << "U+10426" >> >>, << "U+1044F", << "U+10427" >> >>,
      << "U+104D8", << "U+104B0" >> >>, << "U+104D9", << "U+104B1" >> >>,
      << "U+104DA", << "U+104B2" >> >>, << "U+104DB", << "U+104B3" >> >>,
      << "U+104DC", << "U+104B4" >> >>, << "U+104DD", << "U+104B5" >> >>,
      << "U+104DE", << "U+104B6" >> >>, << "U+104DF", << "U+104B7" >> >>,
      << "U+104E0", << "U+104B8" >> >>, << "U+104E1", << "U+104B9" >> >>,
      << "U+104E2", << "U+104BA" >> >>, << "U+104E3", << "U+104BB" >> >>,
      << "U+104E4", << "U+104BC" >> >>, << "U+104E5", << "U+104BD" >> >>,
      << "U+104E6", << "U+104BE" >> >>, << "U+104E7", << "U+104BF" >> >>,
      << "U+104E8", << "U+104C0" >> >>, << "U+104E9", << "U+104C1" >> >>,
      << "U+104EA", << "U+104C2" >> >>, << "U+104EB", << "U+104C3" >> >>,
      << "U+104EC", << "U+104C4" >> >>, << "U+104ED", << "U+104C5" >> >>,
      << "U+104EE", << "U+104C6" >> >>, << "U+104EF", << "U+104C7" >> >>,
      << "U+104F0", << "U+104C8" >> >>, << "U+104F1", << "U+104C9" >> >>,
      << "U+104F2", << "U+104CA" >> >>, << "U+104F3", << "U+104CB" >> >>,
      << "U+104F4", << "U+104CC" >> >>, << "U+104F5", << "U+104CD" >> >>,
      << "U+104F6", << "U+104CE" >> >>, << "U+104F7", << "U+104CF" >> >>,
      << "U+104F8", << "U+104D0" >> >>, << "U+104F9", << "U+104D1" >> >>,
      << "U+104FA", << "U+104D2" >> >>, << "U+104FB", << "U+104D3" >> >>,
      << "U+10597", << "U+10570" >> >>, << "U+10598", << "U+10571" >> >>,
      << "U+10599", << "U+10572" >> >>, << "U+1059A", << "U+10573" >> >>,
      << "U+1059B", << "U+10574" >> >>, << "U+1059C", << "U+10575" >> >>,
      << "U+1059D", << "U+10576" >> >>, << "U+1059E", << "U+10577" >> >>,
      << "U+1059F", << "U+10578" >> >>, << "U+105A0", << "U+10579" >> >>,
      << "U+105A1", << "U+1057A" >> >>, << "U+105A3", << "U+1057C" >> >>,
      << "U+105A4", << "U+1057D" >> >>, << "U+105A5", << "U+1057E" >> >>,
      << "U+105A6", << "U+1057F" >> >>, << "U+105A7", << "U+10580" >> >>,
      << "U+105A8", << "U+10581" >> >>, << "U+105A9", << "U+10582" >> >>,
      << "U+105AA", << "U+10583" >> >>, << "U+105AB", << "U+10584" >> >>,
      << "U+105AC", << "U+10585" >> >>, << "U+105AD", << "U+10586" >> >>,
      << "U+105AE", << "U+10587" >> >>, << "U+105AF", << "U+10588" >> >>,
      << "U+105B0", << "U+10589" >> >>, << "U+105B1", << "U+1058A" >> >>,
      << "U+105B3", << "U+1058C" >> >>, << "U+105B4", << "U+1058D" >> >>,
      << "U+105B5", << "U+1058E" >> >>, << "U+105B6", << "U+1058F" >> >>,
      << "U+105B7", << "U+10590" >> >>, << "U+105B8", << "U+10591" >> >>,
      << "U+105B9", << "U+10592" >> >>, << "U+105BB", << "U+10594" >> >>,
      << "U+105BC", << "U+10595" >> >>, << "U+10CC0", << "U+10C80" >> >>,
      << "U+10CC1", << "U+10C81" >> >>, << "U+10CC2", << "U+10C82" >> >>,
      << "U+10CC3", << "U+10C83" >> >>, << "U+10CC4", << "U+10C84" >> >>,
      << "U+10CC5", << "U+10C85" >> >>, << "U+10CC6", << "U+10C86" >> >>,
      << "U+10CC7", << "U+10C87" >> >>, << "U+10CC8", << "U+10C88" >> >>,
      << "U+10CC9", << "U+10C89" >> >>, << "U+10CCA", << "U+10C8A" >> >>,
      << "U+10CCB", << "U+10C8B" >> >>, << "U+10CCC", << "U+10C8C" >> >>,
      << "U+10CCD", << "U+10C8D" >> >>, << "U+10CCE", << "U+10C8E" >> >>,
      << "U+10CCF", << "U+10C8F" >> >>, << "U+10CD0", << "U+10C90" >> >>,
      << "U+10CD1", << "U+10C91" >> >>, << "U+10CD2", << "U+10C92" >> >>,
      << "U+10CD3", << "U+10C93" >> >>, << "U+10CD4", << "U+10C94" >> >>,
      << "U+10CD5", << "U+10C95" >> >>, << "U+10CD6", << "U+10C96" >> >>,
      << "U+10CD7", << "U+10C97" >> >>, << "U+10CD8", << "U+10C98" >> >>,
      << "U+10CD9", << "U+10C99" >> >>, << "U+10CDA", << "U+10C9A" >> >>,
      << "U+10CDB", << "U+10C9B" >> >>, << "U+10CDC", << "U+10C9C" >> >>,
      << "U+10CDD", << "U+10C9D" >> >>, << "U+10CDE", << "U+10C9E" >> >>,
      << "U+10CDF", << "U+10C9F" >> >>, << "U+10CE0", << "U+10CA0" >> >>,
      << "U+10CE1", << "U+10CA1" >> >>, << "U+10CE2", << "U+10CA2" >> >>,
      << "U+10CE3", << "U+10CA3" >> >>, << "U+10CE4", << "U+10CA4" >> >>,
      << "U+10CE5", << "U+10CA5" >> >>, << "U+10CE6", << "U+10CA6" >> >>,
      << "U+10CE7", << "U+10CA7" >> >>, << "U+10CE8", << "U+10CA8" >> >>,
      << "U+10CE9", << "U+10CA9" >> >>, << "U+10CEA", << "U+10CAA" >> >>,
      << "U+10CEB", << "U+10CAB" >> >>, << "U+10CEC", << "U+10CAC" >> >>,
      << "U+10CED", << "U+10CAD" >> >>, << "U+10CEE", << "U+10CAE" >> >>,
      << "U+10CEF", << "U+10CAF" >> >>, << "U+10CF0", << "U+10CB0" >> >>,
      << "U+10CF1", << "U+10CB1" >> >>, << "U+10CF2", << "U+10CB2" >> >>,
      << "U+118C0", << "U+118A0" >> >>, << "U+118C1", << "U+118A1" >> >>,
      << "U+118C2", << "U+118A2" >> >>, << "U+118C3", << "U+118A3" >> >>,
      << "U+118C4", << "U+118A4" >> >>, << "U+118C5", << "U+118A5" >> >>,
      << "U+118C6", << "U+118A6" >> >>, << "U+118C7", << "U+118A7" >> >>,
      << "U+118C8", << "U+118A8" >> >>, << "U+118C9", << "U+118A9" >> >>,
      << "U+118CA", << "U+118AA" >> >>, << "U+118CB", << "U+118AB" >> >>,
      << "U+118CC", << "U+118AC" >> >>, << "U+118CD", << "U+118AD" >> >>,
      << "U+118CE", << "U+118AE" >> >>, << "U+118CF", << "U+118AF" >> >>,
      << "U+118D0", << "U+118B0" >> >>, << "U+118D1", << "U+118B1" >> >>,
      << "U+118D2", << "U+118B2" >> >>, << "U+118D3", << "U+118B3" >> >>,
      << "U+118D4", << "U+118B4" >> >>, << "U+118D5", << "U+118B5" >> >>,
      << "U+118D6", << "U+118B6" >> >>, << "U+118D7", << "U+118B7" >> >>,
      << "U+118D8", << "U+118B8" >> >>, << "U+118D9", << "U+118B9" >> >>,
      << "U+118DA", << "U+118BA" >> >>, << "U+118DB", << "U+118BB" >> >>,
      << "U+118DC", << "U+118BC" >> >>, << "U+118DD", << "U+118BD" >> >>,
      << "U+118DE", << "U+118BE" >> >>, << "U+118DF", << "U+118BF" >> >>,
      << "U+16E60", << "U+16E40" >> >>, << "U+16E61", << "U+16E41" >> >>,
      << "U+16E62", << "U+16E42" >> >>, << "U+16E63", << "U+16E43" >> >>,
      << "U+16E64", << "U+16E44" >> >>, << "U+16E65", << "U+16E45" >> >>,
      << "U+16E66", << "U+16E46" >> >>, << "U+16E67", << "U+16E47" >> >>,
      << "U+16E68", << "U+16E48" >> >>, << "U+16E69", << "U+16E49" >> >>,
      << "U+16E6A", << "U+16E4A" >> >>, << "U+16E6B", << "U+16E4B" >> >>,
      << "U+16E6C", << "U+16E4C" >> >>, << "U+16E6D", << "U+16E4D" >> >>,
      << "U+16E6E", << "U+16E4E" >> >>, << "U+16E6F", << "U+16E4F" >> >>,
      << "U+16E70", << "U+16E50" >> >>, << "U+16E71", << "U+16E51" >> >>,
      << "U+16E72", << "U+16E52" >> >>, << "U+16E73", << "U+16E53" >> >>,
      << "U+16E74", << "U+16E54" >> >>, << "U+16E75", << "U+16E55" >> >>,
      << "U+16E76", << "U+16E56" >> >>, << "U+16E77", << "U+16E57" >> >>,
      << "U+16E78", << "U+16E58" >> >>, << "U+16E79", << "U+16E59" >> >>,
      << "U+16E7A", << "U+16E5A" >> >>, << "U+16E7B", << "U+16E5B" >> >>,
      << "U+16E7C", << "U+16E5C" >> >>, << "U+16E7D", << "U+16E5D" >> >>,
      << "U+16E7E", << "U+16E5E" >> >>, << "U+16E7F", << "U+16E5F" >> >>,
      << "U+1E922", << "U+1E900" >> >>, << "U+1E923", << "U+1E901" >> >>,
      << "U+1E924", << "U+1E902" >> >>, << "U+1E925", << "U+1E903" >> >>,
      << "U+1E926", << "U+1E904" >> >>, << "U+1E927", << "U+1E905" >> >>,
      << "U+1E928", << "U+1E906" >> >>, << "U+1E929", << "U+1E907" >> >>,
      << "U+1E92A", << "U+1E908" >> >>, << "U+1E92B", << "U+1E909" >> >>,
      << "U+1E92C", << "U+1E90A" >> >>, << "U+1E92D", << "U+1E90B" >> >>,
      << "U+1E92E", << "U+1E90C" >> >>, << "U+1E92F", << "U+1E90D" >> >>,
      << "U+1E930", << "U+1E90E" >> >>, << "U+1E931", << "U+1E90F" >> >>,
      << "U+1E932", << "U+1E910" >> >>, << "U+1E933", << "U+1E911" >> >>,
      << "U+1E934", << "U+1E912" >> >>, << "U+1E935", << "U+1E913" >> >>,
      << "U+1E936", << "U+1E914" >> >>, << "U+1E937", << "U+1E915" >> >>,
      << "U+1E938", << "U+1E916" >> >>, << "U+1E939", << "U+1E917" >> >>,
      << "U+1E93A", << "U+1E918" >> >>, << "U+1E93B", << "U+1E919" >> >>,
      << "U+1E93C", << "U+1E91A" >> >>, << "U+1E93D", << "U+1E91B" >> >>,
      << "U+1E93E", << "U+1E91C" >> >>, << "U+1E93F", << "U+1E91D" >> >>,
      << "U+1E940", << "U+1E91E" >> >>, << "U+1E941", << "U+1E91F" >> >>,
      << "U+1E942", << "U+1E920" >> >>, << "U+1E943", << "U+1E921" >> >> }

\* one character of str.upper()
UpperChar(c) ==
    CASE c = "a" -> << "A" >> [] c = "b" -> << "B" >> [] c = "c" -> << "C" >>
      [] c = "d" -> << "D" >> [] c = "e" -> << "E" >> [] c = "f" -> << "F" >>
      [] c = "g" -> << "G" >> [] c = "h" -> << "H" >> [] c = "i" -> << "I" >>
      [] c = "j" -> << "J" >> [] c = "k" -> << "K" >> [] c = "l" -> << "L" >>
      [] c = "m" -> << "M" >> [] c = "n" -> << "N" >> [] c = "o" -> << "O" >>
      [] c = "p" -> << "P" >> [] c = "q" -> << "Q" >> [] c = "r" -> << "R" >>
      [] c = "s" -> << "S" >> [] c = "t" -> << "T" >> [] c = "u" -> << "U" >>
      [] c = "v" -> << "V" >> [] c = "w" -> << "W" >> [] c = "x" -> << "X" >>
      [] c = "y" -> << "Y" >> [] c = "z" -> << "Z" >>
      [] OTHER ->
           LET p == { q \in UpperPairs : q[1] = c }
           IN  IF p = { } THEN << c >> ELSE (CHOOSE q \in p : TRUE)[2]

\* str.upper()
RECURSIVE Upper(_)
Upper(s) == IF s = << >> THEN << >> ELSE UpperChar(Head(s)) \o Upper(Tail(s))

\* str.split(","): never empty, "" gives [""]
RECURSIVE SplitFrom(_, _, _)
SplitFrom(s, i, cur) ==
    IF i > Len(s) THEN << cur >>
    ELSE IF s[i] = "," THEN << cur >> \o SplitFrom(s, i + 1, << >>)
    ELSE SplitFrom(s, i + 1, Append(cur, s[i]))

SplitComma(s) == SplitFrom(s, 1, << >>)

\* ", ".join(list)
RECURSIVE JoinCommaSpace(_)
JoinCommaSpace(l) ==
    IF l = << >> THEN << >>
    ELSE IF Len(l) = 1 THEN l[1]
    ELSE l[1] \o << ",", " " >> \o JoinCommaSpace(Tail(l))

JsonNull == << "null", 0 >>

\* res before send_message() has returned
NoResponse == [ kind |-> "none", has_ok |-> FALSE, ok |-> JsonNull ]

\* Python truth of a str / None: "not v" is Falsy(v)
Falsy(v) == v = None \/ v = << >>

\* the value of a digit
DigitVal(c) == CHOOSE v \in 0..9 : c \in DecimalDigits[v + 1]

\* the digits str() writes
DigitChar(d) == << "0", "1", "2", "3", "4", "5", "6", "7", "8", "9" >>[d + 1]

\* the white space int() skips at both ends of its argument: all of it but
\* the separators FS, GS, RS and US
IntSpace == WhiteSpace \ { "", "", "", "" }

RECURSIVE IntLStrip(_)
IntLStrip(s) ==
    IF s # << >> /\ Head(s) \in IntSpace THEN IntLStrip(Tail(s)) ELSE s

RECURSIVE IntRStrip(_)
IntRStrip(s) ==
    IF s # << >> /\ s[Len(s)] \in IntSpace
    THEN IntRStrip(SubSeq(s, 1, Len(s) - 1)) ELSE s

IntStrip(s) == IntRStrip(IntLStrip(s))

\* the digits of an int() literal: white space stripped, one optional sign dropped
Unsigned(s) ==
    LET t == IntStrip(s)
    IN  IF t # << >> /\ Head(t) \in { "+", "-" } THEN Tail(t) ELSE t

\* whether int(s) returns; otherwise it raises ValueError.  The digits may be
\* grouped by single underscores, each between two digits (ASCII digits only)
IsIntLiteral(s) ==
    LET d == Unsigned(s)
    IN  /\ d # << >>
        /\ \A i \in 1..Len(d) : d[i] \in Digits \cup { "_" }
        /\ \A i \in 1..Len(d) :
              d[i] = "_" => /\ 1 < i /\ i < Len(d)
                            /\ d[i - 1] \in Digits /\ d[i + 1] \in Digits

\* the value of a digit string; the underscores do not count
RECURSIVE DigitsValue(_)
DigitsValue(d) ==
    IF d = << >> THEN 0
    ELSE IF d[Len(d)] = "_" THEN DigitsValue(SubSeq(d, 1, Len(d) - 1))
    ELSE 10 * DigitsValue(SubSeq(d, 1, Len(d) - 1)) + DigitVal(d[Len(d)])

\* int(s), for s with IsIntLiteral(s)
ParseInt(s) ==
    LET t == IntStrip(s)
        v == DigitsValue(Unsigned(s))
    IN  IF Head(t) = "-" THEN 0 - v ELSE v

\* str(n) for an int
RECURSIVE NatToStr(_)
NatToStr(n) ==
    IF n < 10 THEN << DigitChar(n) >>
    ELSE NatToStr(n \div 10) \o << DigitChar(n % 10) >>

IntToStr(n) == IF n < 0 THEN << "-" >> \o NatToStr(0 - n) ELSE NatToStr(n)

Last(s) == s[Len(s)]


\* Append one library call and its outcome to the history
Called(call, outcome) == Append(trace, << call, outcome >>)

-----------------------------------------------------------------------------
(* notify_email.py *)

\* os.getenv(name, default)
Getenv(name, default) == IF env[name] = None THEN default ELSE env[name]

\* msg before build_message() has run
NoMessage ==
    [ From |-> None, To |-> None, site |-> None, status |-> "", duration |-> None,
      attachment |-> None ]

\* argparse: choices of --status
StatusChoices == { "Success", "Fail", "Failed", "Success/Fail" }

\* the port that selects implicit TLS
ImplicitTlsPort == 465

\* sys.exit(code) / return code from main()
Exit(code) == pc' = "done" /\ exitCode' = code

\* an exception nobody catches: traceback on standard error, exit status 1
Propagate(exc) ==
    /\ Exit(1)
    /\ err' = Append(err, << "Traceback", exc >>)

\* args.status when --status is not on the command line
NoStatus == "<None>"

\* parse_args(): --site, --status and --duration are required (an option not
\* given is None, NoStatus for --status) and --status must be one of the
\* choices; argparse ends the run with the usage text and status 2 otherwise
ArgsAccepted(a) ==
    /\ a.site # None
    /\ a.duration # None
    /\ a.status \in StatusChoices

\* argparse reads the command line from left to right: -h / --help prints the
\* usage and exits 0 where it stands, unless a --status outside the choices
\* came before it; the required options are looked for at the end only, and
\* so are the arguments left over
HelpShown(a) ==
    \/ a.help = "first"
    \/ a.help = "last" /\ (a.status = NoStatus \/ a.status \in StatusChoices)

\* parse_args(): the usage on standard output and exit 0 for -h / --help; the
\* usage on standard error and exit 2 for a command line that is refused (an
\* option missing, a --status outside the choices, an argument left over)
ParseArgs ==
    /\ pc = "start"
    /\ IF HelpShown(args)
       THEN Exit(0) /\ out' = Append(out, << "usage", "argparse" >>) /\ UNCHANGED err
       ELSE IF ArgsAccepted(args) /\ ~args.unknown
       THEN pc' = "read_env" /\ UNCHANGED << out, err, exitCode >>
       ELSE Exit(2) /\ err' = Append(err, << "usage", "argparse" >>) /\ UNCHANGED out
    /\ UNCHANGED << env, args, fs, port, recipients, msg, tls, text, res, trace >>

\* main(): the os.getenv block; int() of SMTP_PORT is evaluated here, before
\* anything is validated, and raises ValueError on a non-integer
ReadEnv ==
    /\ pc = "read_env"
    /\ LET p == Getenv("SMTP_PORT", << "5", "8", "7" >>)
       IN  IF IsIntLiteral(p)
           THEN port' = ParseInt(p) /\ pc' = "validate" /\ UNCHANGED << err, exitCode >>
           ELSE Propagate("ValueError") /\ UNCHANGED port
    /\ UNCHANGED << env, args, fs, recipients, msg, tls, text, res, trace, out >>

\* main(): "not host or not sender or (not env_to and not args.to)"
MissingConfig ==
    \/ Falsy(env.SMTP_HOST)
    \/ Falsy(env.EMAIL_FROM)
    \/ (Falsy(Getenv("EMAIL_TO", << >>)) /\ Falsy(args.to))

Validate ==
    /\ pc = "validate"
    /\ IF MissingConfig
       THEN Exit(2) /\ err' = Append(err, << "Missing SMTP_HOST/EMAIL_FROM/EMAIL_TO", None >>)
       ELSE pc' = "resolve" /\ UNCHANGED << err, exitCode >>
    /\ UNCHANGED << env, args, fs, port, recipients, msg, tls, text, res, trace, out >>

\* the list comprehension "[e.strip() for e in ... if e.strip()]"
RECURSIVE StripNonEmpty(_)
StripNonEmpty(l) ==
    IF l = << >> THEN << >>
    ELSE IF Strip(Head(l)) # << >>
         THEN << Strip(Head(l)) >> \o StripNonEmpty(Tail(l))
         ELSE StripNonEmpty(Tail(l))

\* main(): args.to.split(",") if args.to else env_to.split(",")
RecipientSource(to, env_to) == IF ~Falsy(to) THEN to ELSE env_to

\* mutant of ResolveRecipients: EMAIL_TO is used when --to yields no address
ResolveRecipientsFallback(to, env_to) ==
    IF ~Falsy(to) /\ StripNonEmpty(SplitComma(to)) # << >>
    THEN StripNonEmpty(SplitComma(to))
    ELSE StripNonEmpty(SplitComma(env_to))

ResolveRecipients(to, env_to) == StripNonEmpty(SplitComma(RecipientSource(to, env_to)))

Resolve ==
    /\ pc = "resolve"
    /\ recipients' = ResolveRecipients(args.to, Getenv("EMAIL_TO", << >>))
    /\ IF recipients' = << >>
       THEN Exit(2) /\ err' = Append(err, << "No recipients resolved", None >>)
       ELSE pc' = "build" /\ UNCHANGED << err, exitCode >>
    /\ UNCHANGED << env, args, fs, port, msg, tls, text, res, trace, out >>

\* main(): status="Fail" if args.status == "Failed" else args.status
NormalStatus(status) == IF status = "Failed" THEN "Fail" ELSE status

\* len(value.splitlines()) > 1: a line break (CR LF counting as one) with
\* something after it
SplitsLines(v) ==
    \E i \in 1..Len(v) :
       /\ v[i] \in LineBreaks
       /\ IF v[i] = "\r" /\ i < Len(v) /\ v[i + 1] = "\n"
          THEN i + 1 < Len(v)
          ELSE i < Len(v)

\* the blanks of an address header (RFC 5322 WSP)
Wsp == { " ", "\t" }

\* the words of one address: a blank, with all the white space after it,
\* separates two words; cur is the word being read
RECURSIVE AtomsFrom(_, _)
AtomsFrom(e, cur) ==
    LET word == IF cur = << >> THEN << >> ELSE << cur >>
    IN  IF e = << >> THEN word
        ELSE IF Head(e) \in Wsp THEN word \o AtomsFrom(LStrip(e), << >>)
        ELSE AtomsFrom(Tail(e), Append(cur, Head(e)))

Atoms(e) == AtomsFrom(e, << >>)

RECURSIVE JoinSpace(_)
JoinSpace(l) ==
    IF l = << >> THEN << >>
    ELSE IF Len(l) = 1 THEN l[1]
    ELSE l[1] \o << " " >> \o JoinSpace(Tail(l))

\* EmailMessage.__setitem__ on an address header raises ValueError for a
\* value of more than one line, and for an address that holds a CR or LF
HeaderRaises(v) ==
    \/ SplitsLines(v)
    \/ \E k \in 1..Len(SplitComma(v)) :
          \E a \in { Atoms(SplitComma(v)[k])[n] : n \in 1..Len(Atoms(SplitComma(v)[k])) } :
             \E i \in 1..Len(a) : a[i] \in { "\n", "\r" }

\* one address as the header gives it back: its words joined by one space,
\* in double quotes when there are several
RenderAddress(e) ==
    IF Len(Atoms(e)) > 1
    THEN << "\"" >> \o JoinSpace(Atoms(e)) \o << "\"" >>
    ELSE JoinSpace(Atoms(e))

\* the addresses of a comma separated value, the empty ones dropped
RECURSIVE RenderAddresses(_)
RenderAddresses(l) ==
    IF l = << >> THEN << >>
    ELSE IF Atoms(Head(l)) = << >> THEN RenderAddresses(Tail(l))
    ELSE << RenderAddress(Head(l)) >> \o RenderAddresses(Tail(l))

\* msg["To"] / msg["From"] read back after the assignment: the address header
\* is parsed and rendered again.  For values made of letters, commas and
\* white space; the other address syntax (angle brackets, quotes, comments,
\* groups) is not modelled
AddressHeader(v) == JoinCommaSpace(RenderAddresses(SplitComma(v)))

\* build_message(): the time stamp first (_wib_now() raises when neither TZ nor
\* Asia/Jakarta can be loaded), then the headers and the body's three values;
\* no attachment yet
BuildMessage ==
    /\ pc = "build"
    /\ \E zone \in BOOLEAN :
         IF ~zone
         THEN Propagate("ZoneInfoNotFoundError") /\ UNCHANGED msg
         ELSE IF HeaderRaises(env.EMAIL_FROM) \/ HeaderRaises(JoinCommaSpace(recipients))
         THEN Propagate("ValueError") /\ UNCHANGED msg
         ELSE /\ msg' = [ From       |-> AddressHeader(env.EMAIL_FROM),
                          To         |-> AddressHeader(JoinCommaSpace(recipients)),
                          site       |-> args.site,
                          status     |-> NormalStatus(args.status),
                          duration   |-> args.duration,
                          attachment |-> None ]
              /\ pc' = "attach"
              /\ UNCHANGED << err, exitCode >>
    /\ UNCHANGED << env, args, fs, port, recipients, tls, text, res, trace, out >>

\* mutant of PathExists: the existence test is left out
PathExistsAlways == TRUE

\* attach_file(): os.path.exists(path)
PathExists == fs # "absent"

\* attach_file(): nothing without a path, a warning for a missing one, else the
\* file's bytes; open() of something that exists but is no readable file raises
AttachFile ==
    /\ pc = "attach"
    /\ IF Falsy(args.report)
       THEN pc' = "connect" /\ UNCHANGED << msg, err, exitCode >>
       ELSE IF ~PathExists
       THEN /\ pc' = "connect"
            /\ err' = Append(err, << "WARNING: attachment not found", args.report >>)
            /\ UNCHANGED << msg, exitCode >>
       ELSE IF fs = "file"
       THEN /\ pc' = "connect"
            /\ msg' = [ msg EXCEPT !.attachment = args.report ]
            /\ UNCHANGED << err, exitCode >>
       ELSE Propagate("OSError") /\ UNCHANGED msg
    /\ UNCHANGED << env, args, fs, port, recipients, tls, text, res, trace, out >>

\* mutant of UseImplicitTls: the int compared with the string "465", never equal
UseImplicitTlsNever(p) == FALSE

\* send_email(): str(port) == "465"
UseImplicitTls(p) == IntToStr(p) = IntToStr(ImplicitTlsPort)

\* mutant of ShouldLogin: "if user" only
ShouldLoginUserOnly(user, password) == ~Falsy(user)

\* send_email(): "if user and password"
ShouldLogin(user, password) == ~Falsy(user) /\ ~Falsy(password)

\* what a call on the session can raise, each exception under the nearest of
\* these classes it belongs to: smtplib.SMTPException (the server's answer, or
\* the connection dropped), another OSError (the socket, TLS), a ValueError
\* (e.g. binascii.Error for a login challenge that is not base64), any other
SessionExceptions == { "SMTPException", "OSError", "ValueError", "Exception" }

\* what leaving the "with" block can do: SMTP.__exit__ sends QUIT and raises
\* SMTPResponseException on an answer other than 221 (a dropped connection is
\* swallowed and counts as closed)
CloseOutcomes == { "ok", "SMTPResponseException" }

\* mutant of PropagateFromSession: the failed session is retried from connect
RetryFromSession(call, exc) ==
    /\ trace' = Append(Called(call, exc), << "close", "ok" >>)
    /\ pc' = "connect"
    /\ UNCHANGED << err, exitCode >>

\* an exception raised inside the "with ... as server" block: the context
\* manager closes the session, then the exception leaves main()
PropagateFromSession(call, exc) ==
    \E c \in CloseOutcomes :
      /\ trace' = Append(Called(call, exc), << "close", c >>)
      /\ Propagate(IF c = "ok" THEN exc ELSE c)

\* smtplib.SMTP_SSL(host, port, context) or smtplib.SMTP(host, port): the
\* session is open, or the constructor raised (no connection, or a greeting
\* other than 220) and there is nothing to close
Connect ==
    /\ pc = "connect"
    /\ \E o \in { "ok", "SMTPConnectError" } \cup SessionExceptions :
         LET call == IF UseImplicitTls(port) THEN "SMTP_SSL" ELSE "SMTP"
         IN  IF o = "ok"
             THEN /\ trace' = Called(call, "ok")
                  /\ tls' = UseImplicitTls(port)
                  /\ pc' = IF UseImplicitTls(port) THEN "auth" ELSE "ehlo"
                  /\ UNCHANGED << err, exitCode >>
             ELSE /\ trace' = Called(call, o)
                  /\ Propagate(o)
                  /\ UNCHANGED tls
    /\ UNCHANGED << env, args, fs, port, recipients, msg, text, res, out >>

\* server.ehlo() before the upgrade; outside the try block
Ehlo ==
    /\ pc = "ehlo"
    /\ \E o \in { "ok" } \cup SessionExceptions :
         IF o = "ok"
         THEN trace' = Called("ehlo", "ok") /\ pc' = "starttls" /\ UNCHANGED << err, exitCode >>
         ELSE PropagateFromSession("ehlo", o)
    /\ UNCHANGED << env, args, fs, port, recipients, msg, tls, text, res, out >>

\* what an exception raised in the try block can be
TryOutcomes == { "ok" } \cup SessionExceptions

\* mutant of CaughtByExcept: starttls() called without the try block
CaughtNothing(exc) == FALSE

\* "except smtplib.SMTPException: pass"
CaughtByExcept(exc) == exc = "SMTPException"

\* server.starttls(context=context), inside the try block
StartTls ==
    /\ pc = "starttls"
    /\ \E o \in TryOutcomes :
         IF o = "ok"
         THEN /\ trace' = Called("starttls", "ok")
              /\ tls' = TRUE
              /\ pc' = "ehlo2"
              /\ UNCHANGED << err, exitCode >>
         ELSE IF CaughtByExcept(o)
         THEN /\ trace' = Called("starttls", o)
              /\ pc' = "auth"
              /\ UNCHANGED << tls, err, exitCode >>
         ELSE PropagateFromSession("starttls", o) /\ UNCHANGED tls
    /\ UNCHANGED << env, args, fs, port, recipients, msg, text, res, out >>

\* the second server.ehlo(), inside the try block, after a successful upgrade
EhloAfterTls ==
    /\ pc = "ehlo2"
    /\ \E o \in TryOutcomes :
         IF o = "ok" \/ CaughtByExcept(o)
         THEN trace' = Called("ehlo", o) /\ pc' = "auth" /\ UNCHANGED << err, exitCode >>
         ELSE PropagateFromSession("ehlo", o)
    /\ UNCHANGED << env, args, fs, port, recipients, msg, tls, text, res, out >>

\* "if user and password: server.login(user, password)"
Login ==
    /\ pc = "auth"
    /\ IF ShouldLogin(Getenv("SMTP_USER", << >>), Getenv("SMTP_PASS", << >>))
       THEN \E o \in { "ok" } \cup SessionExceptions :
              IF o = "ok"
              THEN trace' = Called("login", "ok") /\ pc' = "send" /\ UNCHANGED << err, exitCode >>
              ELSE PropagateFromSession("login", o)
       ELSE pc' = "send" /\ UNCHANGED << trace, err, exitCode >>
    /\ UNCHANGED << env, args, fs, port, recipients, msg, tls, text, res, out >>

\* server.send_message(msg)
SendMessage ==
    /\ pc = "send"
    /\ \E o \in { "ok" } \cup SessionExceptions :
         IF o = "ok"
         THEN trace' = Called("send_message", "ok") /\ pc' = "close" /\ UNCHANGED << err, exitCode >>
         ELSE PropagateFromSession("send_message", o)
    /\ UNCHANGED << env, args, fs, port, recipients, msg, tls, text, res, out >>

\* leaving the "with" block normally closes the session
CloseSession ==
    /\ pc = "close"
    /\ \E c \in CloseOutcomes :
         /\ trace' = Called("close", c)
         /\ IF c = "ok"
            THEN pc' = "confirm" /\ UNCHANGED << err, exitCode >>
            ELSE Propagate(c)
    /\ UNCHANGED << env, args, fs, port, recipients, msg, tls, text, res, out >>

\* main(): the confirmation line and "return 0"
Confirm ==
    /\ pc = "confirm"
    /\ out' = Append(out, << "Email sent to", JoinCommaSpace(recipients) >>)
    /\ Exit(0)
    /\ UNCHANGED << env, args, fs, port, recipients, msg, tls, text, res, trace, err >>

NextEmail ==
    \/ ParseArgs \/ ReadEnv \/ Validate \/ Resolve \/ BuildMessage \/ AttachFile
    \/ Connect \/ Ehlo \/ StartTls \/ EhloAfterTls \/ Login \/ SendMessage
    \/ CloseSession \/ Confirm

(* inputs *)
Str465 == << "4", "6", "5" >>
PortStrings ==
    { None, Str465, << "0" >> \o Str465, << "4", "_", "6", "5" >>,
      << " " >> \o Str465 \o << "\n" >>, << "۴", "۶", "۵" >>, << "5", "8", "7" >>, << "2", "5" >>,
      << >>, << "x" >>, << "4", "6", "5", "_" >> }
ReportPath == << "r" >>
\* args.report together with what the file system holds there
ReportCases ==
    { << None, "absent" >>, << << >>, "absent" >>, << ReportPath, "absent" >>,
      << ReportPath, "file" >>, << ReportPath, "dir" >> }
SmallToStrings ==
    { None, << >>, << " ", ",", "\n" >>, << "a", ",", "b" >>, << "a", "\n", "b" >> }
SmallEnvToStrings == { None, << " " >>, << "a", " ", "a" >> }
\* SMTP_USER and SMTP_PASS
Credentials ==
    { << None, None >>, << << "u" >>, << >> >>, << None, << "p" >> >>,
      << << "u" >>, << "p" >> >> }
\* the command line: --site, --status, --duration, where -h / --help stands
\* (none, first: before the options, last: after them), and whether an
\* argument the parser does not know is left over
CommandLines ==
    { << << "u" >>, "Success", << "4" >>, "none", FALSE >>,
      << << "u" >>, "Failed", << "4" >>, "none", FALSE >>,
      << << "u" >>, "bogus", << "4" >>, "none", FALSE >>,
      << None, "Success", << "4" >>, "none", FALSE >>,
      << << "u" >>, "Success", None, "none", FALSE >>,
      << << "u" >>, "Success", << "4" >>, "none", TRUE >>,
      << << "u" >>, "Success", << "4" >>, "first", FALSE >>,
      << << "u" >>, "bogus", << "4" >>, "first", FALSE >>,
      << << "u" >>, "bogus", << "4" >>, "last", FALSE >>,
      << None, "Success", << "4" >>, "last", FALSE >>,
      << << "u" >>, NoStatus, << "4" >>, "last", FALSE >>,
      << << "u" >>, NoStatus, << "4" >>, "none", FALSE >>,
      << << "u" >>, "Success", << "4" >>, "last", TRUE >> }

\* the state main() starts in, for the given inputs
EmailStart(e, a, f) ==
    /\ pc = "start"
    /\ env = e
    /\ args = a
    /\ fs = f
    /\ port = 0
    /\ recipients = << >>
    /\ msg = NoMessage
    /\ tls = FALSE
    /\ text = << >>
    /\ res = NoResponse
    /\ trace = << >>
    /\ out = << >>
    /\ err = << >>
    /\ exitCode = NoExit

InitEmail ==
    \E host \in { None, << >>, << "h" >> }, sender \in { None, << "s" >> },
       p \in PortStrings, cred \in Credentials,
       to \in SmallToStrings, env_to \in SmallEnvToStrings,
       rep \in ReportCases, cl \in CommandLines :
        EmailStart([ SMTP_HOST |-> host, SMTP_PORT |-> p, SMTP_USER |-> cred[1],
                     SMTP_PASS |-> cred[2], EMAIL_FROM |-> sender, EMAIL_TO |-> env_to ],
                   [ prog |-> "notify_email.py", site |-> cl[1], status |-> cl[2],
                     duration |-> cl[3], report |-> rep[1], to |-> to,
                     help |-> cl[4], unknown |-> cl[5] ],
                   rep[2])

SpecEmail == InitEmail /\ [][NextEmail]_vars

-----------------------------------------------------------------------------
(* notify_email.py, recipient resolution over enumerated strings *)

RecipientAlphabet == { ",", " ", "a" }

\* every --to / EMAIL_TO string up to MaxStrLen, and some with two addresses
RecipientStrings ==
    SeqsUpTo(RecipientAlphabet, MaxStrLen)
      \cup { << "a", ",", "b" >>, << "b", ",", "a" >>, << "b", ",", "b" >>,
             << " ", "b", " ", ",", "a", "b", " " >>, << "b" >>, << ",", "b", ",", "," >>,
             << "\n" >>, << "\t", "a", "\r", "\n", ",", "b", "\n" >>,
             << "a", "\n", "b" >>, << " " >>, << "a", "", ",", "b" >>,
             << "a", "", "b" >>, << "U+2003", "a", ",", "U+3000" >> }

\* SMTP_PORT of these runs: every pair of strings with 465 and with a port
\* int() refuses, the default port with --to a,b or no --to
RecipientPorts(to) ==
    IF to \in { None, << "a", ",", "b" >> } THEN { None, Str465, << "x" >> }
    ELSE { Str465, << "x" >> }

InitRecipients ==
    \E host \in { None, << "h" >> },
       to \in RecipientStrings \cup { None }, env_to \in RecipientStrings \cup { None } :
     \E p \in RecipientPorts(to) :
        EmailStart([ SMTP_HOST |-> host, SMTP_PORT |-> p, SMTP_USER |-> << "u" >>,
                     SMTP_PASS |-> << "p" >>, EMAIL_FROM |-> << "s" >>, EMAIL_TO |-> env_to ],
                   [ prog |-> "notify_email.py", site |-> << "u" >>, status |-> "Success",
                     duration |-> << "4" >>, report |-> None, to |-> to,
                     help |-> "none", unknown |-> FALSE ],
                   "absent")

SpecRecipients == InitRecipients /\ [][NextEmail]_vars

-----------------------------------------------------------------------------
(* notify_telegram.py *)

\* mutant of EnvMissing: the value is not stripped before the test
EnvMissingNoStrip(v) == v = None \/ v = << >>

\* env(name, required=True): "v is None or str(v).strip() == ''"
EnvMissing(v) == v = None \/ Strip(v) = << >>

\* the two badges: a cross mark (U+274C) / a check mark (U+2705), a space and
\* the word
BadgeFailed == << "U+274C", " ", "F", "A", "I", "L", "E", "D" >>
BadgeSuccess == << "U+2705", " ", "S", "U", "C", "C", "E", "S", "S" >>

StrFAIL == << "F", "A", "I", "L" >>
StrFAILED == << "F", "A", "I", "L", "E", "D" >>

\* mutant of IsFailStatus: upper() without strip()
IsFailStatusNoStrip(status) == Upper(status) \in { StrFAIL, StrFAILED }

\* main(): status = args.status.strip().upper(); status in {"FAIL", "FAILED"}
IsFailStatus(status) == Upper(Strip(status)) \in { StrFAIL, StrFAILED }

Badge(status) == IF IsFailStatus(status) THEN BadgeFailed ELSE BadgeSuccess

\* the default of --site
SiteDefault ==
    << "h", "t", "t", "p", "s", ":", "/", "/", "w", "w", "w", ".", "g", "e",
    "n", "e", "r", "a", "s", "i", "m", "a", "j", "u", ".", "c", "o", ".",
    "i", "d" >>

\* now_str: the time stamp strftime() gives (digits, a month, "|", a zone
\* name), held as one element
NowStr == << "<now>" >>

\* the f-string of each line
TitleLine ==
    << "<", "b", ">", "P", "a", "g", "e", "S", "p", "e", "e", "d", " ", "I",
    "n", "s", "i", "g", "h", "t", " ", "R", "e", "p", "o", "r", "t", "<",
    "/", "b", ">" >>
StatusLine(badge) == << "S", "t", "a", "t", "u", "s", ":", " ", "<", "b", ">" >> \o badge \o << "<", "/", "b", ">" >>
SiteLine(site) == << "S", "i", "t", "e", ":", " ", "<", "c", "o", "d", "e", ">" >>
                    \o site \o << "<", "/", "c", "o", "d", "e", ">" >>
DurationLine(d) == << "D", "u", "r", "a", "t", "i", "o", "n", ":", " ", "<", "b", ">" >>
                     \o d \o << " ", "s", "<", "/", "b", ">" >>
TimeLine(now) == << "T", "i", "m", "e", ":", " " >> \o now
DashboardLine(d) == << "D", "a", "s", "h", "b", "o", "a", "r", "d", ":", " " >> \o d

\* an optional line: appended only for a truthy value
OptionalLine(v, line) == IF Falsy(v) THEN << >> ELSE << line >>

\* main(): the list lines, in order
RenderLines(a) ==
    << TitleLine, StatusLine(Badge(a.status)), SiteLine(a.site) >>
      \o OptionalLine(a.duration, DurationLine(a.duration))
      \o << TimeLine(NowStr) >>
      \o OptionalLine(a.dashboard, DashboardLine(a.dashboard))
      \o OptionalLine(a.extra, a.extra)

\* "\n".join(lines)
RECURSIVE JoinLines(_)
JoinLines(l) ==
    IF l = << >> THEN << >>
    ELSE IF Len(l) = 1 THEN l[1]
    ELSE l[1] \o << "\n" >> \o JoinLines(Tail(l))

\* the lone surrogates (U+DC80..U+DCFF) Python puts in an argument or an
\* environment variable for the bytes that are not UTF-8; encoding them as
\* UTF-8 raises UnicodeEncodeError
Surrogates ==
    { "U+DC80", "U+DC81", "U+DC82", "U+DC83", "U+DC84", "U+DC85", "U+DC86",
      "U+DC87", "U+DC88", "U+DC89", "U+DC8A", "U+DC8B", "U+DC8C", "U+DC8D",
      "U+DC8E", "U+DC8F", "U+DC90", "U+DC91", "U+DC92", "U+DC93", "U+DC94",
      "U+DC95", "U+DC96", "U+DC97", "U+DC98", "U+DC99", "U+DC9A", "U+DC9B",
      "U+DC9C", "U+DC9D", "U+DC9E", "U+DC9F", "U+DCA0", "U+DCA1", "U+DCA2",
      "U+DCA3", "U+DCA4", "U+DCA5", "U+DCA6", "U+DCA7", "U+DCA8", "U+DCA9",
      "U+DCAA", "U+DCAB", "U+DCAC", "U+DCAD", "U+DCAE", "U+DCAF", "U+DCB0",
      "U+DCB1", "U+DCB2", "U+DCB3", "U+DCB4", "U+DCB5", "U+DCB6", "U+DCB7",
      "U+DCB8", "U+DCB9", "U+DCBA", "U+DCBB", "U+DCBC", "U+DCBD", "U+DCBE",
      "U+DCBF", "U+DCC0", "U+DCC1", "U+DCC2", "U+DCC3", "U+DCC4", "U+DCC5",
      "U+DCC6", "U+DCC7", "U+DCC8", "U+DCC9", "U+DCCA", "U+DCCB", "U+DCCC",
      "U+DCCD", "U+DCCE", "U+DCCF", "U+DCD0", "U+DCD1", "U+DCD2", "U+DCD3",
      "U+DCD4", "U+DCD5", "U+DCD6", "U+DCD7", "U+DCD8", "U+DCD9", "U+DCDA",
      "U+DCDB", "U+DCDC", "U+DCDD", "U+DCDE", "U+DCDF", "U+DCE0", "U+DCE1",
      "U+DCE2", "U+DCE3", "U+DCE4", "U+DCE5", "U+DCE6", "U+DCE7", "U+DCE8",
      "U+DCE9", "U+DCEA", "U+DCEB", "U+DCEC", "U+DCED", "U+DCEE", "U+DCEF",
      "U+DCF0", "U+DCF1", "U+DCF2", "U+DCF3", "U+DCF4", "U+DCF5", "U+DCF6",
      "U+DCF7", "U+DCF8", "U+DCF9", "U+DCFA", "U+DCFB", "U+DCFC", "U+DCFD",
      "U+DCFE", "U+DCFF" }

\* urlencode(data): every value is encoded as UTF-8
Encodable(s) == \A i \in 1..Len(s) : s[i] \notin Surrogates

\* the characters http.client refuses in a request target: the ASCII control
\* characters, the space and DEL (no NUL: the environment holds none)
UrlDisallowed ==
    { "", "", "", "", "", "", "", "", "\t", "\n", "", "\f", "\r",
      "", "", "", "", "", "", "", "", "", "", "", "", "", "",
      "", "", "", "", " ", "" }

\* the ASCII characters
AsciiChars ==
    UrlDisallowed \cup
    { "!", "\"", "#", "$", "%", "&", "'", "(", ")", "*", "+", ",", "-", ".",
      "/", "0", "1", "2", "3", "4", "5", "6", "7", "8", "9", ":", ";", "<",
      "=", ">", "?", "@", "A", "B", "C", "D", "E", "F", "G", "H", "I", "J",
      "K", "L", "M", "N", "O", "P", "Q", "R", "S", "T", "U", "V", "W", "X",
      "Y", "Z", "[", "\\", "]", "^", "_", "U+0060", "a", "b", "c", "d", "e",
      "f", "g", "h", "i", "j", "k", "l", "m", "n", "o", "p", "q", "r", "s",
      "t", "u", "v", "w", "x", "y", "z", "{", "|", "}", "~" }

\* Request(url): what follows the last "#" of the URL is its fragment and no
\* part of the request target; of the target only the token can vary
RequestTarget(token) ==
    LET h == { i \in 1..Len(token) : token[i] = "#" }
    IN  IF h = { } THEN token
        ELSE SubSeq(token, 1, (CHOOSE i \in h : \A j \in h : j <= i) - 1)

\* urlopen() before it connects: http.client raises InvalidURL for a target
\* with a disallowed character, and UnicodeEncodeError for one that is not
\* ASCII
UrlError(token) ==
    LET t == RequestTarget(token)
    IN  IF \E i \in 1..Len(t) : t[i] \in UrlDisallowed THEN "InvalidURL"
        ELSE IF \E i \in 1..Len(t) : t[i] \notin AsciiChars THEN "UnicodeEncodeError"
        ELSE "ok"

\* mutant of Truthy: "res.get('ok') is not None" in place of bool()
TruthyWhenPresent(v) == v # JsonNull

\* Python truth of a decoded JSON value
Truthy(v) ==
    CASE v[1] = "bool"   -> v[2]
      [] v[1] = "number" -> v[2] # 0
      [] v[1] = "string" -> v[2] # << >>
      [] v[1] = "array"  -> v[2] # << >>
      [] v[1] = "object" -> v[2] # << >>
      [] OTHER           -> FALSE

\* res.get("ok") on a decoded JSON object
GetOk(r) == IF r.has_ok THEN r.ok ELSE JsonNull

\* values the "ok" member of a response can hold
OkValues ==
    { << "bool", TRUE >>, << "bool", FALSE >>, JsonNull, << "number", 0 >>,
      << "number", 1 >>, << "string", << >> >>, << "string", << "n", "o" >> >>,
      << "array", << >> >>, << "array", << "x" >> >>,
      << "object", << >> >>, << "object", << "k" >> >> }

\* JSON objects the API can answer with
JsonObjects ==
    { [ kind |-> "object", has_ok |-> TRUE, ok |-> v ] : v \in OkValues }
      \cup { [ kind |-> "object", has_ok |-> FALSE, ok |-> JsonNull ] }

\* the decoded JSON values that are no object: res.get raises AttributeError
JsonNonObjects ==
    { [ kind |-> k, has_ok |-> FALSE, ok |-> JsonNull ] :
        k \in { "array", "string", "number", "bool", "null" } }

\* argparse: -h / --help prints the usage and exits 0; --status is required
\* and an argument left over is refused
TgParseArgs ==
    /\ pc = "tg_start"
    /\ IF args.help # "none"
       THEN Exit(0) /\ out' = Append(out, << "usage", "argparse" >>) /\ UNCHANGED err
       ELSE IF args.status # None /\ ~args.unknown
       THEN pc' = "env_token" /\ UNCHANGED << out, err, exitCode >>
       ELSE Exit(2) /\ err' = Append(err, << "usage", "argparse" >>) /\ UNCHANGED out
    /\ UNCHANGED << env, args, fs, port, recipients, msg, tls, text, res, trace >>

\* env(name, required=True) in main(): exit 2 with the variable's name
RequireEnv(name, next) ==
    /\ IF EnvMissing(env[name])
       THEN Exit(2) /\ err' = Append(err, << "Missing required env", name >>)
       ELSE pc' = next /\ UNCHANGED << err, exitCode >>
    /\ UNCHANGED << env, args, fs, port, recipients, msg, tls, text, res, trace, out >>

TgEnvToken == pc = "env_token" /\ RequireEnv("TELEGRAM_BOT_TOKEN", "env_chat")

TgEnvChat == pc = "env_chat" /\ RequireEnv("TELEGRAM_CHAT_ID", "render")

\* main(): badge, time stamp, lines, text
TgBuildText ==
    /\ pc = "render"
    /\ text' = JoinLines(RenderLines(args))
    /\ pc' = "post"
    /\ UNCHANGED << env, args, fs, port, recipients, msg, tls, res, trace, out, err, exitCode >>

\* what urlopen(), resp.read(), decode() and json.loads() raise once the
\* connection is tried, each exception under the nearest of these classes it
\* belongs to: the connection fails (URLError), the answer is an HTTP error
\* (HTTPError), does not come in time or breaks off (TimeoutError,
\* RemoteDisconnected, another OSError such as ConnectionResetError), is no
\* HTTP or is cut short (HTTPException: BadStatusLine, IncompleteRead), the
\* body is not UTF-8 or not JSON (UnicodeDecodeError, JSONDecodeError, another
\* ValueError), any other
PostExceptions ==
    { "URLError", "HTTPError", "TimeoutError", "RemoteDisconnected", "OSError",
      "HTTPException", "UnicodeDecodeError", "JSONDecodeError", "ValueError",
      "Exception" }

\* send_message(): urlencode() of the fields, then one urlopen(); the request
\* is refused before any connection, or the call raises, or main() gets the
\* decoded value
TgSendMessage ==
    /\ pc = "post"
    /\ IF ~Encodable(env.TELEGRAM_CHAT_ID) \/ ~Encodable(text)
       THEN /\ trace' = Called("urlencode", "UnicodeEncodeError")
            /\ Propagate("UnicodeEncodeError")
            /\ UNCHANGED res
       ELSE IF UrlError(env.TELEGRAM_BOT_TOKEN) # "ok"
       THEN /\ trace' = Called("urlopen", UrlError(env.TELEGRAM_BOT_TOKEN))
            /\ Propagate(UrlError(env.TELEGRAM_BOT_TOKEN))
            /\ UNCHANGED res
       ELSE \/ \E exc \in PostExceptions :
                 /\ trace' = Called("POST", exc)
                 /\ Propagate(exc)
                 /\ UNCHANGED res
            \/ \E r \in JsonObjects \cup JsonNonObjects :
                 /\ trace' = Called("POST", "ok")
                 /\ res' = r
                 /\ pc' = "check"
                 /\ UNCHANGED << err, exitCode >>
    /\ UNCHANGED << env, args, fs, port, recipients, msg, tls, text, out >>

\* main(): ok = bool(res.get("ok")) and the two ways out
TgCheckOk ==
    /\ pc = "check"
    /\ IF res.kind # "object"
       THEN Propagate("AttributeError") /\ UNCHANGED out
       ELSE IF ~Truthy(GetOk(res))
       THEN Exit(1) /\ err' = Append(err, << "Telegram API error", res >>) /\ UNCHANGED out
       ELSE Exit(0) /\ out' = Append(out, << "Sent", None >>) /\ UNCHANGED err
    /\ UNCHANGED << env, args, fs, port, recipients, msg, tls, text, res, trace >>

NextTelegram ==
    TgParseArgs \/ TgEnvToken \/ TgEnvChat \/ TgBuildText \/ TgSendMessage \/ TgCheckOk

(* inputs *)
PadChars == { " ", "\n" }
Pads == SeqsUpTo(PadChars, MaxPad)

StatusWords ==
    { << >>,
      << "f", "a", "i", "l" >>, StrFAIL, << "f", "A", "i", "L" >>,
      << "f", "a", "i", "l", "e", "d" >>, StrFAILED, << "F", "a", "i", "l", "e", "d" >>,
      << "f", "a", "i", "l", "s" >>, << "f", " ", "a", "i", "l" >>,
      << "u", "n", "f", "a", "i", "l" >>,
      << "s", "u", "c", "c", "e", "s", "s" >>, << "S", "U", "C", "C", "E", "S", "S" >> }

\* every word between two pads, and some with the other white space
StatusInputs ==
    { a \o w \o b : a \in Pads, w \in StatusWords, b \in Pads }
      \cup { << "\t" >> \o StrFAIL \o << "\r", "\n" >>,
             << "" >> \o StrFAILED \o << "" >>,
             << "", "f", "a", "i", "l", "" >>,
             << "f", "a", "\n", "i", "l" >>,
             << "w", "a", "r", "n" >>,
             << " ", "f", "a", "i", "l", "" >>,
             << "U+2003", "F", "a", "i", "l", "e", "d", "U+2028" >>,
             << "f", "a", "U+0131", "l" >>, << "f", "a", "ì", "l" >>,
             << "f", "a", "i", "l", "é" >>, << "f", " ", "a", "i", "l" >> }

EnvValues ==
    { None, << >>, << " " >>, << "\n" >>, << " ", "U+3000" >>, << "t" >>,
      << " ", "t", "\t" >>, << "t", "é" >>, << "a", "#", " ", "é" >>,
      << "c", "U+DCFF" >>, << "" >> }

\* --site (its default when not given), --duration, --dashboard, --extra as
\* given on the command line, whether -h / --help is given, and whether an
\* argument is left over
PlainArgs ==
    { << SiteDefault, None, None, None, "none", FALSE >>,
      << SiteDefault, << "4" >>, None, None, "first", FALSE >>,
      << SiteDefault, << "4" >>, None, None, "none", TRUE >> }
OptionalArgs ==
    PlainArgs \cup
    { << SiteDefault, << >>, << "d" >>, None, "none", FALSE >>,
      << << "g" >>, << "4" >>, None, << "e" >>, "none", FALSE >>,
      << << "g" >>, << "4" >>, << "d" >>, << "e" >>, "none", FALSE >>,
      << << >>, None, None, BadgeFailed, "none", FALSE >>,
      << BadgeSuccess, None, BadgeFailed, None, "none", FALSE >>,
      << << "g" >>, BadgeFailed, None, << "e", "\n" >> \o BadgeSuccess, "none", FALSE >>,
      << SiteDefault, None, None, << "e", "U+DC80" >>, "none", FALSE >>,
      << << "U+DC80" >>, None, None, None, "none", FALSE >> }

\* the runs: every environment with a few command lines, and every command
\* line with one environment
TgRuns ==
    { << token, chat, status, opt >> :
        token \in EnvValues, chat \in EnvValues,
        status \in { None, StrFAIL, << "o", "k" >> }, opt \in PlainArgs }
      \cup { << << "t" >>, << "c" >>, status, opt >> :
               status \in StatusInputs \cup { None }, opt \in OptionalArgs }

InitTelegram ==
    \E run \in TgRuns :
        /\ pc = "tg_start"
        /\ env = [ TELEGRAM_BOT_TOKEN |-> run[1], TELEGRAM_CHAT_ID |-> run[2] ]
        /\ args = [ prog |-> "notify_telegram.py", status |-> run[3], site |-> run[4][1],
                    duration |-> run[4][2], dashboard |-> run[4][3], extra |-> run[4][4],
                    help |-> run[4][5], unknown |-> run[4][6] ]
        /\ fs = "absent"
        /\ port = 0
        /\ recipients = << >>
        /\ msg = NoMessage
        /\ tls = FALSE
        /\ text = << >>
        /\ res = NoResponse
        /\ trace = << >>
        /\ out = << >>
        /\ err = << >>
        /\ exitCode = NoExit

SpecTelegram == InitTelegram /\ [][NextTelegram]_vars

-----------------------------------------------------------------------------
(* either script *)

Init == InitEmail \/ InitTelegram

Next == NextEmail \/ NextTelegram

Spec == Init /\ [][Next]_vars

-----------------------------------------------------------------------------
(* The claims.  Their conditions are stated on the inputs and on what the   *)
(* run did (trace, out, err, exitCode), with definitions of their own.      *)

IsEmail == args.prog = "notify_email.py"
IsTelegram == args.prog = "notify_telegram.py"
Done == pc = "done"

CallNames == [ i \in 1..Len(trace) |-> trace[i][1] ]
CallCount(call) == Cardinality({ i \in 1..Len(trace) : trace[i][1] = call })
CallOk(call) == \E i \in 1..Len(trace) : trace[i] = << call, "ok" >>
Printed(stream, tag) == \E i \in 1..Len(stream) : stream[i][1] = tag

\* a value that is unset or the empty string
Unset(v) == v = None \/ Len(v) = 0
\* the characters Python counts as white space (str.isspace())
Blanks ==
    { "\t", "\n", "", "\f", "\r", "", "", "", "", " ", "", " ", " ",
      "U+2000", "U+2001", "U+2002", "U+2003", "U+2004", "U+2005", "U+2006",
      "U+2007", "U+2008", "U+2009", "U+200A", "U+2028", "U+2029", "U+202F",
      "U+205F", "U+3000" }
\* a string of white space only (the empty one included)
AllBlank(v) == \A i \in 1..Len(v) : v[i] \in Blanks
\* a comma separated string holding at least one address
HasAddress(v) == v # None /\ \E i \in 1..Len(v) : v[i] \notin Blanks \cup { "," }
\* argparse accepts the command line of notify_email.py
CommandLineAccepted ==
    /\ args.help = "none" /\ ~args.unknown
    /\ args.site # None /\ args.duration # None
    /\ args.status \in { "Success", "Fail", "Failed", "Success/Fail" }

\* the source the recipients are taken from: --to when given, else EMAIL_TO
SelectedSource ==
    IF ~Unset(args.to) THEN args.to
    ELSE IF env.EMAIL_TO = None THEN << >> ELSE env.EMAIL_TO

\* C1: in every run of notify_email.py whose SMTP_HOST or EMAIL_FROM is missing
\* or empty, or whose recipient list resolves to nothing, the run ends with
\* exit status 2 and without any SMTP call, whatever SMTP_PORT and the other
\* variables hold (the command line itself being accepted by argparse).
C1_MissingConfigExitsTwo ==
    ( /\ IsEmail /\ Done
      /\ CommandLineAccepted
      /\ \/ Unset(env.SMTP_HOST)
         \/ Unset(env.EMAIL_FROM)
         \/ ~HasAddress(SelectedSource) )
    => (exitCode = 2 /\ trace = << >>)

\* the part of C1 the code does keep: such a run never makes an SMTP call
C1_NoConnectionWithoutConfig ==
    ( /\ IsEmail
      /\ \/ Unset(env.SMTP_HOST)
         \/ Unset(env.EMAIL_FROM)
         \/ ~HasAddress(SelectedSource) )
    => trace = << >>

\* a value env(required=True) must refuse: unset, empty or white space only
BlankEnv(v) == v = None \/ AllBlank(v)

\* argparse accepts the command line of notify_telegram.py
TgCommandLineAccepted == args.help = "none" /\ ~args.unknown /\ args.status # None

\* -h / --help ended the run: the usage on standard output, exit 0, and
\* nothing else done
HelpRun ==
    /\ args.help # "none" /\ Done /\ exitCode = 0
    /\ out = << << "usage", "argparse" >> >> /\ err = << >>
    /\ trace = << >> /\ text = << >>

\* C2 as stated: notify_telegram.py with TELEGRAM_BOT_TOKEN or TELEGRAM_CHAT_ID
\* unset, empty or blank exits with status 2, makes no HTTP request and has
\* built no text.
C2_MissingEnvExitsTwo ==
    ( /\ IsTelegram
      /\ BlankEnv(env.TELEGRAM_BOT_TOKEN) \/ BlankEnv(env.TELEGRAM_CHAT_ID) )
    => /\ trace = << >>
       /\ text = << >>
       /\ Done => exitCode = 2

\* C2 (amended): notify_telegram.py with TELEGRAM_BOT_TOKEN or TELEGRAM_CHAT_ID
\* unset, empty or blank makes no HTTP request and builds no text, and exits
\* with status 2 unless the command line asks for help (-h / --help prints the
\* usage and exits 0 before the environment is read); on a command line that
\* is accepted the token is checked first (it is the one named when both are
\* missing).
C2_MissingEnvExitsBeforePost ==
    ( /\ IsTelegram
      /\ BlankEnv(env.TELEGRAM_BOT_TOKEN) \/ BlankEnv(env.TELEGRAM_CHAT_ID) )
    => /\ trace = << >>
       /\ text = << >>
       /\ ~Printed(out, "Sent")
       /\ Done => IF args.help # "none" THEN HelpRun ELSE exitCode = 2
       /\ (Done /\ TgCommandLineAccepted) =>
            /\ out = << >>
            /\ err = << << "Missing required env",
                           IF BlankEnv(env.TELEGRAM_BOT_TOKEN)
                           THEN "TELEGRAM_BOT_TOKEN" ELSE "TELEGRAM_CHAT_ID" >> >>

\* C2's case has happened: the token is fine, the chat id is blank but not empty
C2_Witness ==
    /\ IsTelegram /\ Done /\ exitCode = 2
    /\ ~BlankEnv(env.TELEGRAM_BOT_TOKEN)
    /\ env.TELEGRAM_CHAT_ID = << " ", "U+3000" >>
    /\ TgCommandLineAccepted

\* the success flag of a decoded response is the JSON value true
FlagIsTrue(r) == r.kind = "object" /\ r.has_ok /\ r.ok = << "bool", TRUE >>

\* the success flag of a decoded response counts as true for Python's bool():
\* true, a number other than 0, a string, array or object that is not empty
FlagTruthy(r) ==
    /\ r.kind = "object" /\ r.has_ok
    /\ \/ r.ok = << "bool", TRUE >>
       \/ (r.ok[1] = "number" /\ r.ok[2] # 0)
       \/ (r.ok[1] \in { "string", "array", "object" } /\ Len(r.ok[2]) > 0)

\* the POST has returned a decoded JSON value
Decoded == res.kind # "none"

\* C3 as stated: once the POST has returned a decoded JSON response, the exit
\* status follows its success flag: false or absent gives the raw response on
\* standard error, status 1 and no confirmation; true gives the confirmation
\* and status 0; and status 0 never comes without a response whose flag is
\* true.
C3_ExitFollowsOkFlag ==
    IsTelegram =>
      /\ exitCode = 0 => (FlagIsTrue(res) /\ out = << << "Sent", None >> >>)
      /\ (Done /\ Decoded /\ ~FlagIsTrue(res)) =>
            /\ exitCode = 1
            /\ out = << >>
            /\ err = << << "Telegram API error", res >> >>
      /\ (Done /\ Decoded /\ FlagIsTrue(res)) =>
            /\ exitCode = 0
            /\ out = << << "Sent", None >> >>
            /\ err = << >>

\* C3 (amended): once the single POST has returned a decoded JSON object, the
\* exit status follows the truth (Python's bool()) of its success flag: a flag
\* that is false, absent, null, 0 or empty gives the raw response on standard
\* error, status 1 and no confirmation; any other flag gives the confirmation
\* and status 0.  A decoded value that is no object ends the run with an
\* AttributeError traceback, status 1 and no confirmation.  Status 0 never
\* comes without an object whose flag counts as true, except in a -h / --help
\* run, which prints the usage and exits 0 without any POST.
C3_ExitFollowsOkFlagOrHelp ==
    IsTelegram =>
      /\ Decoded => trace = << << "POST", "ok" >> >>
      /\ exitCode = 0 =>
            \/ FlagTruthy(res) /\ out = << << "Sent", None >> >> /\ args.help = "none"
            \/ HelpRun /\ ~Decoded
      /\ (Done /\ res.kind = "object" /\ ~FlagTruthy(res)) =>
            /\ exitCode = 1
            /\ out = << >>
            /\ err = << << "Telegram API error", res >> >>
      /\ (Done /\ res.kind = "object" /\ FlagTruthy(res)) =>
            /\ exitCode = 0
            /\ out = << << "Sent", None >> >>
            /\ err = << >>
      /\ (Done /\ Decoded /\ res.kind # "object") =>
            /\ exitCode = 1
            /\ out = << >>
            /\ err = << << "Traceback", "AttributeError" >> >>

\* C3's case has happened: a response with "ok": false ended the run with 1
C3_Witness ==
    /\ IsTelegram /\ Done /\ exitCode = 1
    /\ res.kind = "object" /\ res.has_ok /\ res.ok = << "bool", FALSE >>

\* a is an initial segment of b
IsPrefix(a, b) == Len(a) <= Len(b) /\ \A i \in 1..Len(a) : a[i] = b[i]

\* the calls of a session, without the closing one
SessionCalls ==
    IF trace # << >> /\ Last(trace)[1] = "close"
    THEN SubSeq(CallNames, 1, Len(trace) - 1)
    ELSE CallNames

\* the orders of calls the claim allows on the two transports
OptionalCall(call) == { << >>, << call >> }
ImplicitTlsOrders ==
    { << "SMTP_SSL" >> \o l \o << "send_message" >> : l \in OptionalCall("login") }
StartTlsOrders ==
    { << "SMTP", "ehlo", "starttls" >> \o e \o l \o << "send_message" >> :
        e \in OptionalCall("ehlo"), l \in OptionalCall("login") }

\* C4: the port alone selects the transport.  On port 465 the session is
\* opened with SMTP_SSL and neither ehlo nor starttls is ever called; on any
\* other port it is opened with SMTP and the calls come in the order connect,
\* ehlo, starttls, ehlo again exactly when the upgrade succeeded, login if any,
\* send_message.  send_message comes only after a successful connect, and a
\* session that was opened is closed (whether or not the server takes the
\* QUIT well), as the last call of the run.
C4_TransportByPort ==
    (IsEmail /\ trace # << >>) =>
      /\ IF port = 465
         THEN /\ \E o \in ImplicitTlsOrders : IsPrefix(SessionCalls, o)
              /\ tls = (trace[1][2] = "ok")
         ELSE /\ \E o \in StartTlsOrders : IsPrefix(SessionCalls, o)
              /\ tls = CallOk("starttls")
      /\ \A i \in 1..Len(trace) :
            trace[i][1] = "starttls" /\ i < Len(trace)
              => ((trace[i + 1][1] = "ehlo") <=> (trace[i][2] = "ok"))
      /\ CallCount("send_message") > 0 => trace[1][2] = "ok"
      /\ CallCount("close") <= 1
      /\ (Done /\ trace[1][2] = "ok") => Last(trace)[1] = "close"
      /\ trace[1][2] # "ok" => Len(trace) = 1

\* C4's case has happened: a run on a port other than 465 upgraded the session,
\* sent the message and closed
C4_Witness ==
    /\ IsEmail /\ Done /\ port # 465
    /\ CallNames = << "SMTP", "ehlo", "starttls", "ehlo", "send_message", "close" >>
    /\ trace[3][2] = "ok"
    /\ CallOk("send_message")

\* both credentials are set and non-empty
HasCredentials == ~Unset(env.SMTP_USER) /\ ~Unset(env.SMTP_PASS)

\* the server refused the upgrade: starttls raised an SMTPException
TlsRejectedAt(i) == trace[i] = << "starttls", "SMTPException" >>

\* the session was left without an error: QUIT was answered well, or the
\* connection had dropped
ClosedWell == trace # << >> /\ Last(trace) = << "close", "ok" >>

\* what a refused upgrade at call i leaves of the run: plaintext, then login
\* when credentials are set, else send_message, and no failure of its own
GoesOnAfterRejection(i) ==
    /\ port # 465 /\ ~tls
    /\ i = Len(trace) => (pc \in { "auth", "send" } /\ exitCode = NoExit)
    /\ i < Len(trace) =>
         trace[i + 1][1] = IF HasCredentials THEN "login" ELSE "send_message"
    /\ (Done /\ exitCode # 0) =>
         \E j \in (i + 1)..Len(trace) : trace[j][2] # "ok"

\* C5 as stated: on a port other than 465 a refused STARTTLS is not fatal: the
\* run goes on over the plaintext session, logs in when credentials are set,
\* sends, and exits 0 if the send succeeds.
C5_StartTlsRejectionNotFatal ==
    IsEmail =>
      \A i \in 1..Len(trace) :
        TlsRejectedAt(i) =>
          /\ GoesOnAfterRejection(i)
          /\ (Done /\ CallOk("send_message")) => exitCode = 0

\* C5 (amended): on a port other than 465 a refused STARTTLS is not fatal: the
\* run goes on over the plaintext session, logs in when credentials are set,
\* sends, and exits 0 if the send succeeds and the session is then left without
\* an error; when the server's answer to QUIT is not 221 the run exits 1
\* without the confirmation although the message was sent.  A refusal alone
\* never gives a non-zero exit nor keeps the message from being sent.
C5_RejectionNotFatalCloseMayFail ==
    IsEmail =>
      \A i \in 1..Len(trace) :
        TlsRejectedAt(i) =>
          /\ GoesOnAfterRejection(i)
          /\ (Done /\ CallOk("send_message") /\ ClosedWell) =>
                (exitCode = 0 /\ Printed(out, "Email sent to"))
          /\ (Done /\ CallOk("send_message") /\ ~ClosedWell) =>
                (exitCode = 1 /\ out = << >>)

\* C5's case has happened: the upgrade was refused and the run still logged
\* in, sent and exited 0
C5_Witness ==
    /\ IsEmail /\ Done /\ exitCode = 0
    /\ \E i \in 1..Len(trace) : TlsRejectedAt(i)
    /\ CallOk("login") /\ CallOk("send_message")

\* C6: login is called if and only if SMTP_USER and SMTP_PASS are both
\* non-empty, and then (once, successfully) before send_message; with either
\* empty the message is sent without login.  On both transports.
C6_LoginIffCredentials ==
    IsEmail =>
      /\ CallCount("login") <= 1
      /\ CallCount("login") = 1 => HasCredentials
      /\ \A i \in 1..Len(trace) :
            trace[i][1] = "send_message" =>
              IF HasCredentials
              THEN i > 1 /\ trace[i - 1] = << "login", "ok" >>
              ELSE CallCount("login") = 0
      /\ (pc = "send" /\ HasCredentials) => Last(trace) = << "login", "ok" >>

\* C6's case has happened: an implicit-TLS session logged in, then sent
C6_Witness ==
    /\ IsEmail /\ HasCredentials
    /\ CallNames = << "SMTP_SSL", "login", "send_message" >>

\* a call of the transport that raised out of main()
RaisedAt(i) ==
    /\ trace[i][1] \in { "SMTP", "SMTP_SSL", "login", "send_message", "close",
                         "urlopen", "POST" }
    /\ trace[i][2] # "ok"

\* notify_telegram.py got past its validation: the command line is accepted
\* and both variables are there
PassedValidation ==
    /\ IsTelegram /\ TgCommandLineAccepted
    /\ ~BlankEnv(env.TELEGRAM_BOT_TOKEN) /\ ~BlankEnv(env.TELEGRAM_CHAT_ID)

\* the ASCII characters other than the control characters, the space and DEL
VisibleAscii ==
    { "!", "\"", "#", "$", "%", "&", "'", "(", ")", "*", "+", ",", "-", ".",
      "/", "0", "1", "2", "3", "4", "5", "6", "7", "8", "9", ":", ";", "<",
      "=", ">", "?", "@", "A", "B", "C", "D", "E", "F", "G", "H", "I", "J",
      "K", "L", "M", "N", "O", "P", "Q", "R", "S", "T", "U", "V", "W", "X",
      "Y", "Z", "[", "\\", "]", "^", "_", "U+0060", "a", "b", "c", "d", "e",
      "f", "g", "h", "i", "j", "k", "l", "m", "n", "o", "p", "q", "r", "s",
      "t", "u", "v", "w", "x", "y", "z", "{", "|", "}", "~" }

\* s without what follows its last "#"
UpToLastHash(s) ==
    IF \E i \in 1..Len(s) : s[i] = "#"
    THEN SubSeq(s, 1, (CHOOSE i \in 1..Len(s) :
                         s[i] = "#" /\ \A j \in (i + 1)..Len(s) : s[j] # "#") - 1)
    ELSE s

\* the fields that are shown in the text: --site always, --duration,
\* --dashboard and --extra when given and not empty
ShownFields ==
    { args.site } \cup { v \in { args.duration, args.dashboard, args.extra } : ~Unset(v) }

\* the request of notify_telegram.py can be made ready: the chat id and the
\* shown fields can be encoded as UTF-8, and the token, up to its last "#", is
\* made of visible ASCII characters
RequestReady ==
    /\ \A v \in ShownFields \cup { env.TELEGRAM_CHAT_ID } :
          \A i \in 1..Len(v) : v[i] \notin Surrogates
    /\ \A i \in 1..Len(UpToLastHash(env.TELEGRAM_BOT_TOKEN)) :
          UpToLastHash(env.TELEGRAM_BOT_TOKEN)[i] \in VisibleAscii

\* C7 as stated: a run opens at most one connection and sends at most once; a
\* run of notify_email.py that exits 0 has sent exactly once; a run of
\* notify_telegram.py that passed validation has posted exactly once; and when
\* the transport raises nothing is tried again, no confirmation is printed and
\* the exit status is non-zero.
C7_SingleAttempt ==
    /\ CallCount("SMTP") + CallCount("SMTP_SSL") + CallCount("POST") <= 1
    /\ CallCount("send_message") <= 1
    /\ (IsEmail /\ exitCode = 0) =>
          (CallOk("send_message") /\ CallCount("send_message") = 1)
    /\ (PassedValidation /\ Done) => CallCount("POST") = 1
    /\ \A i \in 1..Len(trace) :
          RaisedAt(i) =>
            /\ Done /\ exitCode > 0
            /\ out = << >>
            /\ \A j \in (i + 1)..Len(trace) : trace[j][1] = "close"

\* C7 (amended): as stated, but a run of notify_email.py that exits 0 has sent
\* exactly once unless it is a -h / --help run, which prints the usage and
\* exits 0 without opening a connection (in either script); and a run of
\* notify_telegram.py that passed validation has posted exactly once if its
\* request can be made ready, and otherwise ends with a traceback and status
\* 1 before any connection is opened.
C7_SingleAttemptOrHelp ==
    /\ CallCount("SMTP") + CallCount("SMTP_SSL") + CallCount("POST") <= 1
    /\ CallCount("send_message") <= 1
    /\ (IsEmail /\ exitCode = 0) =>
          \/ CallOk("send_message") /\ CallCount("send_message") = 1 /\ args.help = "none"
          \/ HelpRun
    /\ args.help = "first" => trace = << >>
    /\ (PassedValidation /\ Done /\ RequestReady) => CallCount("POST") = 1
    /\ (PassedValidation /\ Done /\ ~RequestReady) =>
          /\ CallCount("POST") = 0
          /\ exitCode = 1
          /\ out = << >>
          /\ \E e \in { "UnicodeEncodeError", "InvalidURL" } :
                err = << << "Traceback", e >> >>
    /\ (IsTelegram /\ ~PassedValidation) => CallCount("POST") = 0
    /\ \A i \in 1..Len(trace) :
          RaisedAt(i) =>
            /\ Done /\ exitCode > 0
            /\ out = << >>
            /\ \A j \in (i + 1)..Len(trace) : trace[j][1] = "close"

\* C7's case has happened: send_message raised and the run ended
C7_Witness ==
    /\ IsEmail /\ Done
    /\ \E i \in 1..Len(trace) : trace[i][1] = "send_message" /\ RaisedAt(i)

\* positions of the commas of s, and the cuts they make with both ends
CommaAt(s) == { i \in 1..Len(s) : s[i] = "," }
Cuts(s) == { 0 } \cup CommaAt(s) \cup { Len(s) + 1 }
NthCut(s, k) == CHOOSE x \in Cuts(s) : Cardinality({ y \in Cuts(s) : y < x }) = k - 1
\* the comma separated fields of s, in order
Fields(s) ==
    [ k \in 1..(Cardinality(CommaAt(s)) + 1) |->
        SubSeq(s, NthCut(s, k) + 1, NthCut(s, k + 1) - 1) ]
Ink(f) == { i \in 1..Len(f) : f[i] \notin Blanks }
NonBlank(f) == Ink(f) # { }
\* a non-blank field without the white space around it
Trimmed(f) ==
    SubSeq(f, CHOOSE i \in Ink(f) : \A j \in Ink(f) : i <= j,
              CHOOSE i \in Ink(f) : \A j \in Ink(f) : i >= j)
\* the trimmed, non-empty entries of s: order kept, duplicates kept
Entries(s) ==
    LET kept == SelectSeq(Fields(s), NonBlank)
    IN  [ k \in 1..Len(kept) |-> Trimmed(kept[k]) ]

\* argparse accepts the command line, and SMTP_HOST and EMAIL_FROM are set
ConfigSet ==
    /\ CommandLineAccepted
    /\ ~Unset(env.SMTP_HOST) /\ ~Unset(env.EMAIL_FROM)

\* C8 as stated: with SMTP_HOST and EMAIL_FROM set, a run is rejected for lack
\* of recipients (exit 2) only when neither --to nor EMAIL_TO holds an address.
C8_RejectedOnlyWhenBothEmpty ==
    (IsEmail /\ Done /\ ConfigSet /\ exitCode = 2) =>
        (~HasAddress(args.to) /\ ~HasAddress(env.EMAIL_TO))

\* C8 (amended): the recipients are the trimmed, non-empty entries, in order
\* and with duplicates, of --to when --to is given and not empty, else of
\* EMAIL_TO; EMAIL_TO is no fallback for a --to without addresses.  With
\* SMTP_HOST and EMAIL_FROM set the run is rejected with exit 2 only when that
\* one source holds no address (and then no SMTP call is made); when it holds
\* one the run never exits 2 and, once the environment is read, that list is
\* what the message is built for; a message is never built, and no session
\* opened, for any other list.
C8_RecipientsFromSelectedSource ==
    IsEmail =>
      /\ recipients # << >> => recipients = Entries(SelectedSource)
      /\ (msg.From # None \/ trace # << >>) =>
            /\ recipients = Entries(SelectedSource)
            /\ recipients # << >>
      /\ (Done /\ ConfigSet /\ exitCode = 2) => ~HasAddress(SelectedSource)
      /\ (Done /\ ConfigSet /\ HasAddress(SelectedSource)) =>
            /\ exitCode # 2
            /\ \/ recipients = Entries(SelectedSource)
               \/ (recipients = << >> /\ err = << << "Traceback", "ValueError" >> >>)
      /\ (Done /\ ConfigSet /\ ~HasAddress(SelectedSource)) =>
            /\ trace = << >> /\ recipients = << >>
            /\ exitCode = 2 \/ err = << << "Traceback", "ValueError" >> >>

\* C8's case has happened: --to is blank but not empty, EMAIL_TO holds an
\* address, and the run was rejected
C8_Witness ==
    /\ IsEmail /\ Done /\ ConfigSet /\ exitCode = 2
    /\ ~Unset(args.to) /\ ~HasAddress(args.to)
    /\ HasAddress(env.EMAIL_TO)

\* attach_file() has returned or raised
AfterAttach == msg.From # None /\ pc # "attach"
Warned == Printed(err, "WARNING: attachment not found")

\* what attach_file() does with --report: a warning and no attachment for a
\* path that does not exist, nothing without --report, an attachment only for
\* a file that exists
AttachmentFollowsReport ==
    /\ (AfterAttach /\ ~Unset(args.report) /\ fs = "absent") =>
          /\ Warned
          /\ msg.attachment = None
          /\ ~Printed(err, "Traceback") \/ trace # << >>
    /\ args.report = None => (~Warned /\ msg.attachment = None)
    /\ msg.attachment # None =>
          (args.report # None /\ fs # "absent" /\ msg.attachment = args.report)
    /\ (AfterAttach /\ args.report # None /\ fs = "file") => msg.attachment # None
    /\ ~AfterAttach => (~Warned /\ msg.attachment = None)

\* C9 as stated: a --report path that does not exist gives a warning on
\* standard error and a message without attachment, and the exit status is
\* still 0 when the send succeeds; without --report there is no warning and no
\* attachment; the message carries an attachment only if --report was given and
\* the file exists.
C9_MissingReportIsNotFatal ==
    IsEmail =>
      /\ AttachmentFollowsReport
      /\ (Done /\ Warned /\ CallOk("send_message")) => exitCode = 0

\* C9 (amended): a --report path that does not exist gives a warning on
\* standard error and a message without attachment, and the exit status is
\* still 0 when the send succeeds and the SMTP session is then left without an
\* error (a QUIT answered with anything but 221 makes the run exit 1 after the
\* message was sent); without --report there is no warning and no attachment;
\* the message carries an attachment only if --report was given and the file
\* exists.
C9_MissingReportNotFatalCloseMayFail ==
    IsEmail =>
      /\ AttachmentFollowsReport
      /\ (Done /\ Warned /\ CallOk("send_message")) =>
            IF Last(trace) = << "close", "ok" >>
            THEN exitCode = 0 /\ Printed(out, "Email sent to")
            ELSE exitCode = 1 /\ out = << >>

\* C9's case has happened: the report was missing, the run warned, sent and
\* exited 0
C9_Witness ==
    /\ IsEmail /\ Done /\ exitCode = 0
    /\ ~Unset(args.report) /\ fs = "absent"
    /\ Warned /\ CallOk("send_message")

\* s is w up to the case of its letters (w in capitals); the small letters of
\* I are i and the dotless i (U+0131)
SameIgnoringCase(s, w) ==
    /\ Len(s) = Len(w)
    /\ \A i \in 1..Len(s) :
         \/ s[i] = w[i]
         \/ << s[i], w[i] >> \in { << "f", "F" >>, << "a", "A" >>, << "i", "I" >>,
                                   << "U+0131", "I" >>, << "l", "L" >>,
                                   << "e", "E" >>, << "d", "D" >> }

\* s is FAIL or FAILED in any case, with white space around it at most
SaysFail(s) ==
    \E i \in 0..Len(s), j \in 0..Len(s) :
       /\ i <= j
       /\ \A k \in 1..i : s[k] \in Blanks
       /\ \A k \in (j + 1)..Len(s) : s[k] \in Blanks
       /\ \/ SameIgnoringCase(SubSeq(s, i + 1, j), << "F", "A", "I", "L" >>)
          \/ SameIgnoringCase(SubSeq(s, i + 1, j), << "F", "A", "I", "L", "E", "D" >>)

\* the two badges
FailureBadge == << "U+274C", " ", "F", "A", "I", "L", "E", "D" >>
SuccessBadge == << "U+2705", " ", "S", "U", "C", "C", "E", "S", "S" >>

\* w stands somewhere in s
Contains(s, w) == \E i \in 0..(Len(s) - Len(w)) : SubSeq(s, i + 1, i + Len(w)) = w

\* the status line: the second line of the text
LineFeeds == { i \in 1..Len(text) : text[i] = "\n" }
FirstFeed == CHOOSE i \in LineFeeds : \A j \in LineFeeds : i <= j
SecondFeed == CHOOSE i \in LineFeeds \ { FirstFeed } : \A j \in LineFeeds \ { FirstFeed } : i <= j
StatusLineOfText == SubSeq(text, FirstFeed + 1, SecondFeed - 1)

\* C10 as stated: the rendered text holds the failure badge if and only if
\* --status, trimmed and with case ignored, is FAIL or FAILED, and the success
\* badge for every other value; its status line holds exactly one of the two
\* badges.
C10_BadgeByStatus ==
    (IsTelegram /\ text # << >>) =>
      /\ Contains(text, FailureBadge) <=> SaysFail(args.status)
      /\ ~SaysFail(args.status) => Contains(text, SuccessBadge)
      /\ Contains(StatusLineOfText, FailureBadge) # Contains(StatusLineOfText, SuccessBadge)

\* C10 (amended): the status line of the rendered text (its second line) holds
\* the failure badge if and only if --status, trimmed and with case ignored,
\* is FAIL or FAILED, and the success badge for every other value, so exactly
\* one of the two.  The other lines carry --site, --duration, --dashboard and
\* --extra as they are: the text as a whole holds a badge if and only if its
\* status line or one of the fields shown does.
C10_BadgeOnStatusLine ==
    (IsTelegram /\ text # << >>) =>
      /\ Cardinality(LineFeeds) >= 3
      /\ StatusLineOfText =
           << "S", "t", "a", "t", "u", "s", ":", " ", "<", "b", ">" >>
             \o (IF SaysFail(args.status) THEN FailureBadge ELSE SuccessBadge)
             \o << "<", "/", "b", ">" >>
      /\ Contains(StatusLineOfText, FailureBadge) <=> SaysFail(args.status)
      /\ Contains(StatusLineOfText, SuccessBadge) <=> ~SaysFail(args.status)
      /\ Contains(text, FailureBadge) <=>
           (SaysFail(args.status) \/ \E v \in ShownFields : Contains(v, FailureBadge))
      /\ Contains(text, SuccessBadge) <=>
           (~SaysFail(args.status) \/ \E v \in ShownFields : Contains(v, SuccessBadge))

\* C10's case has happened: " Failed" with white space around it got the
\* failure badge on the status line, below a text that holds the other badge
\* in its --extra
C10_Witness ==
    /\ IsTelegram /\ text # << >>
    /\ args.status = << " ", "F", "a", "i", "l", "e", "d", "\n" >>
    /\ Contains(StatusLineOfText, FailureBadge)
    /\ Contains(args.extra, SuccessBadge)

=============================================================================
